---------------------------- MODULE Spec2Model ----------------------------
(***************************************************************************)
(* Model of the FinDocAnalyzer extraction and ratio engine.                *)
(*                                                                         *)
(*   server/financial-calculator.ts  validateAndNormalizeFinancialData,    *)
(*                                   calculateFinancialRatios,             *)
(*                                   evaluateRatios, getRatioStatus        *)
(*   server/document-parser.ts       normalizeKey, parseNumericValue,      *)
(*                                   parseFinancialDataFromText, findValue *)
(*   server/excel-parser.ts          findValue (spreadsheet resolver)      *)
(*                                                                         *)
(* Numbers.  A JavaScript number is modelled as a reduced fraction         *)
(* [num, den] with den > 0; den = 0 encodes the non-finite results of a    *)
(* division (num = 1: Infinity, num = -1: -Infinity, num = 0: NaN).        *)
(* Amounts of the financial record are integers.  For the integer amounts  *)
(* of the model, IEEE division is correctly rounded and monotone, so a     *)
(* comparison of a quotient with a decimal threshold agrees with the       *)
(* comparison of the exact fractions.                                      *)
(*                                                                         *)
(* Strings.  A string is a TLA+ string; its i-th character is              *)
(* SubSeq(s, i, i).  TLA+ strings are ASCII, so every Cyrillic letter of   *)
(* the source is written as one Latin letter of the same case (table       *)
(* below); the mapping is one-to-one on the letters the source tables use, *)
(* so lengths, substrings and word boundaries are those of the source.     *)
(*   a-a b-b v-v g-g d-d e-e zh-j z-z i-i short-i-$ k-k l-l m-m n-n o-o     *)
(*   p-p r-r s-s t-t u-u f-f kh-h ts-c ch-q shch-x y-y soft-sign-' e-& yu-!  *)
(*   ya-w                                                                  *)
(* Other characters: "_" stands for U+00A0 (no-break space), "~" for       *)
(* U+202F (narrow no-break space), "#" for a tab, "<" and ">" for the      *)
(* guillemets, "@" for U+0130 (capital I with dot above, whose lower case  *)
(* is "i" followed by the combining mark U+0307, written "^").             *)
(***************************************************************************)
EXTENDS Integers, Sequences, FiniteSets, TLC

VARIABLES
    pc,          \* position of the run being modelled
    data,        \* FinancialData handed to the calculator
    normalized,  \* result of validateAndNormalizeFinancialData
    mismatch,    \* whether the balance warning was logged
    ratios,      \* result of calculateFinancialRatios
    evaluated,   \* result of evaluateRatios
    inputStr,    \* string handed to parseNumericValue and normalizeKey
    parsedValue, \* result of parseNumericValue(inputStr)
    normKey,     \* result of normalizeKey(inputStr)
    normKey2,    \* result of normalizeKey(normKey)
    dataMap,     \* raw key -> value, a Map in insertion order
    foundKeys,   \* labels recorded while the map was filled
    resolving,   \* the findValue call made: resolver and canonical field
    resolved,    \* what the call returned or threw
    lines,       \* nonEmptyLines of the document text
    idx,         \* the line the running strategy loop is at, from 1
    extracted,   \* what parseFinancialDataFromText returned or threw
    server,      \* the registered /api/analyze handler and the environment
    requests,    \* the analyze requests in flight, each with its locals
    analyses,    \* MemStorage.analyses: id -> FinancialAnalysisResult
    enrichment,  \* one generateFinancialAnalysis call and its locals
    header       \* the header scan of parseFinancialDataFromText and its locals

calcVars == <<data, normalized, mismatch, ratios, evaluated>>

textVars == <<inputStr, parsedValue, normKey, normKey2>>

resolveVars == <<dataMap, foundKeys, resolving, resolved>>

extractVars == <<lines, idx, extracted>>

analyzeVars == <<server, requests, analyses>>

enrichVars == <<enrichment>>

headerVars == <<header>>

serviceVars == <<analyzeVars, enrichVars, headerVars>>

vars == <<pc, calcVars, textVars, resolveVars, extractVars, serviceVars>>

\* what the actions of one component leave alone
notCalc == <<textVars, resolveVars, extractVars, serviceVars>>

notText == <<calcVars, resolveVars, extractVars, serviceVars>>

notResolve == <<calcVars, textVars, extractVars, serviceVars>>

notExtract == <<calcVars, textVars, serviceVars>>

(***************************************************************************)
(* JavaScript numbers                                                      *)
(***************************************************************************)
Abs(x) == IF x < 0 THEN -x ELSE x

RECURSIVE Gcd(_, _)
Gcd(a, b) == IF b = 0 THEN a ELSE Gcd(b, a % b)

NaN == [num |-> 0, den |-> 0]

Zero == [num |-> 0, den |-> 1]

\* the literal n/d of the source, e.g. 2.5 = Rat(5, 2)
Rat(n, d) == LET g == Gcd(Abs(n), d) IN [num |-> n \div g, den |-> d \div g]

\* a / b on integer amounts
Div(a, b) ==
    IF b = 0
    THEN [num |-> IF a > 0 THEN 1 ELSE IF a < 0 THEN -1 ELSE 0, den |-> 0]
    ELSE IF b > 0 THEN Rat(a, b) ELSE Rat(-a, -b)

IsFinite(x) == x.den > 0

\* x >= y
Ge(x, y) ==
    IF IsFinite(x) /\ IsFinite(y) THEN x.num * y.den >= y.num * x.den
    ELSE IF x = NaN \/ y = NaN THEN FALSE
    ELSE IF IsFinite(x) THEN y.num < 0
    ELSE IF IsFinite(y) THEN x.num > 0
    ELSE x.num >= y.num

\* x <= y
Le(x, y) == Ge(y, x)

\* an optional number: <<>> is undefined, <<v>> is the value v
Undefined == <<>>

Def(v) == <<v>>

IsDefined(o) == o # <<>>

Val(o) == o[1]

(***************************************************************************)
(* server/financial-calculator.ts                                          *)
(***************************************************************************)

\* the division without its guard: Infinity or NaN on a zero denominator
RatioOrZero_unguarded(numerator, denominator) == Div(numerator, denominator)

\* denominator > 0 ? numerator / denominator : 0
RatioOrZero(numerator, denominator) ==
    IF denominator > 0 THEN Div(numerator, denominator) ELSE Zero

\* a difference of exactly 1% of totalAssets reported too
BalanceMismatch_inclusive(d) ==
    LET calculatedTotalLiabilities == d.longTermDebt + d.currentLiabilities
        calculatedPassive == d.equity + calculatedTotalLiabilities
        difference == Abs(d.totalAssets - calculatedPassive)
    IN  100 * difference >= d.totalAssets

\* difference > tolerance, with tolerance = totalAssets * 0.01
BalanceMismatch(d) ==
    LET calculatedTotalLiabilities == d.longTermDebt + d.currentLiabilities
        calculatedPassive == d.equity + calculatedTotalLiabilities
        difference == Abs(d.totalAssets - calculatedPassive)
    IN  100 * difference > d.totalAssets

\* the record returned as parsed, totalLiabilities not recomputed
validateAndNormalizeFinancialData_keepParsed(d) == d

\* the passive side made to balance: equity recomputed as well
validateAndNormalizeFinancialData_balanced(d) ==
    LET calculatedTotalLiabilities == d.longTermDebt + d.currentLiabilities
    IN  [d EXCEPT !.totalLiabilities = calculatedTotalLiabilities,
                  !.equity = d.totalAssets - calculatedTotalLiabilities]

validateAndNormalizeFinancialData(d) ==
    LET calculatedTotalLiabilities == d.longTermDebt + d.currentLiabilities
    IN  [d EXCEPT !.totalLiabilities = calculatedTotalLiabilities]

calculateFinancialRatios(d) ==
    [ currentRatio |->
        RatioOrZero(d.currentAssets, d.currentLiabilities),
      quickRatio |->
        RatioOrZero(d.currentAssets - d.inventory, d.currentLiabilities),
      cashRatio |->
        RatioOrZero(d.cashAndEquivalents + d.shortTermInvestments,
                    d.currentLiabilities),
      equityRatio |->
        RatioOrZero(d.equity, d.totalAssets),
      debtRatio |->
        RatioOrZero(d.totalLiabilities, d.totalAssets),
      debtToEquityRatio |->
        RatioOrZero(d.totalLiabilities, d.equity),
      financialLeverageRatio |->
        RatioOrZero(d.totalAssets, d.equity),
      workingCapital |-> d.currentAssets - d.currentLiabilities,
      equityManeuverability |->
        IF d.equity > 0
        THEN Def(Div(d.equity - (d.totalAssets - d.currentAssets), d.equity))
        ELSE Undefined,
      roa |->
        IF IsDefined(d.netIncome) /\ d.totalAssets > 0
        THEN Def(Div(Val(d.netIncome), d.totalAssets)) ELSE Undefined,
      roe |->
        IF IsDefined(d.netIncome) /\ d.equity > 0
        THEN Def(Div(Val(d.netIncome), d.equity)) ELSE Undefined,
      ros |->
        IF IsDefined(d.netIncome) /\ IsDefined(d.revenue) /\ Val(d.revenue) > 0
        THEN Def(Div(Val(d.netIncome), Val(d.revenue))) ELSE Undefined,
      grossProfitMargin |->
        IF IsDefined(d.grossProfit) /\ IsDefined(d.revenue) /\ Val(d.revenue) > 0
        THEN Def(Div(Val(d.grossProfit), Val(d.revenue))) ELSE Undefined,
      operatingProfitMargin |->
        IF IsDefined(d.operatingIncome) /\ IsDefined(d.revenue) /\ Val(d.revenue) > 0
        THEN Def(Div(Val(d.operatingIncome), Val(d.revenue))) ELSE Undefined,
      netProfitMargin |->
        IF IsDefined(d.netIncome) /\ IsDefined(d.revenue) /\ Val(d.revenue) > 0
        THEN Def(Div(Val(d.netIncome), Val(d.revenue))) ELSE Undefined ]

\* the comparisons made strict: a value on a threshold falls one tier lower
getRatioStatus_strict(value, thresholds, reverse) ==
    IF reverse
    THEN IF ~Ge(value, thresholds.excellent) THEN "excellent"
         ELSE IF ~Ge(value, thresholds.good) THEN "good"
         ELSE IF ~Ge(value, thresholds.warning) THEN "warning"
         ELSE "critical"
    ELSE IF ~Le(value, thresholds.excellent) THEN "excellent"
         ELSE IF ~Le(value, thresholds.good) THEN "good"
         ELSE IF ~Le(value, thresholds.warning) THEN "warning"
         ELSE "critical"

\* the reverse flag dropped: every ratio compared with >=
getRatioStatus_ignoreReverse(value, thresholds, reverse) ==
    IF Ge(value, thresholds.excellent) THEN "excellent"
    ELSE IF Ge(value, thresholds.good) THEN "good"
    ELSE IF Ge(value, thresholds.warning) THEN "warning"
    ELSE "critical"

\* the two upper tiers named the wrong way round
getRatioStatus_swappedTiers(value, thresholds, reverse) ==
    IF reverse
    THEN IF Le(value, thresholds.excellent) THEN "good"
         ELSE IF Le(value, thresholds.good) THEN "excellent"
         ELSE IF Le(value, thresholds.warning) THEN "warning"
         ELSE "critical"
    ELSE IF Ge(value, thresholds.excellent) THEN "good"
         ELSE IF Ge(value, thresholds.good) THEN "excellent"
         ELSE IF Ge(value, thresholds.warning) THEN "warning"
         ELSE "critical"

getRatioStatus(value, thresholds, reverse) ==
    IF reverse
    THEN IF Le(value, thresholds.excellent) THEN "excellent"
         ELSE IF Le(value, thresholds.good) THEN "good"
         ELSE IF Le(value, thresholds.warning) THEN "warning"
         ELSE "critical"
    ELSE IF Ge(value, thresholds.excellent) THEN "excellent"
         ELSE IF Ge(value, thresholds.good) THEN "good"
         ELSE IF Ge(value, thresholds.warning) THEN "warning"
         ELSE "critical"

\* the threshold triple { excellent: e, good: g, warning: w }
Thresholds(e, g, w) == [excellent |-> e, good |-> g, warning |-> w]

CurrentRatioThresholds == Thresholds(Rat(5, 2), Rat(2, 1), Rat(3, 2))

QuickRatioThresholds == Thresholds(Rat(3, 2), Rat(1, 1), Rat(4, 5))

CashRatioThresholds == Thresholds(Rat(1, 2), Rat(1, 5), Rat(1, 10))

DebtToEquityThresholds == Thresholds(Rat(1, 2), Rat(1, 1), Rat(3, 2))

EquityRatioThresholds == Thresholds(Rat(3, 5), Rat(1, 2), Rat(2, 5))

DebtRatioThresholds == Thresholds(Rat(3, 10), Rat(1, 2), Rat(3, 5))

FinancialLeverageThresholds == Thresholds(Rat(3, 2), Rat(2, 1), Rat(5, 2))

RoaThresholds == Thresholds(Rat(3, 20), Rat(1, 10), Rat(1, 20))

RoeThresholds == Thresholds(Rat(1, 5), Rat(3, 20), Rat(1, 10))

RosThresholds == Thresholds(Rat(3, 20), Rat(1, 10), Rat(1, 20))

GrossProfitMarginThresholds == Thresholds(Rat(2, 5), Rat(3, 10), Rat(1, 5))

OperatingProfitMarginThresholds == Thresholds(Rat(1, 5), Rat(3, 20), Rat(1, 10))

NetProfitMarginThresholds == Thresholds(Rat(3, 20), Rat(1, 10), Rat(1, 20))

RatioWithStatus(value, status) == [value |-> value, status |-> status]

\* an optional ratio is spread into the result only when it is defined
OptionalStatus(o, thresholds) ==
    IF IsDefined(o)
    THEN Def(RatioWithStatus(Val(o), getRatioStatus(Val(o), thresholds, FALSE)))
    ELSE Undefined

\* zero working capital taken for healthy
workingCapitalStatus_nonNegative(value) ==
    IF value >= 0 THEN "excellent" ELSE "critical"

\* ratios.workingCapital > 0 ? "excellent" : "critical"
workingCapitalStatus(value) ==
    IF value > 0 THEN "excellent" ELSE "critical"

evaluateRatios(r) ==
    [ currentRatio |-> RatioWithStatus(r.currentRatio,
          getRatioStatus(r.currentRatio, CurrentRatioThresholds, FALSE)),
      quickRatio |-> RatioWithStatus(r.quickRatio,
          getRatioStatus(r.quickRatio, QuickRatioThresholds, FALSE)),
      cashRatio |-> RatioWithStatus(r.cashRatio,
          getRatioStatus(r.cashRatio, CashRatioThresholds, FALSE)),
      debtToEquityRatio |-> RatioWithStatus(r.debtToEquityRatio,
          getRatioStatus(r.debtToEquityRatio, DebtToEquityThresholds, TRUE)),
      equityRatio |-> RatioWithStatus(r.equityRatio,
          getRatioStatus(r.equityRatio, EquityRatioThresholds, FALSE)),
      debtRatio |-> RatioWithStatus(r.debtRatio,
          getRatioStatus(r.debtRatio, DebtRatioThresholds, TRUE)),
      financialLeverageRatio |-> RatioWithStatus(r.financialLeverageRatio,
          getRatioStatus(r.financialLeverageRatio, FinancialLeverageThresholds, TRUE)),
      workingCapital |-> RatioWithStatus(r.workingCapital,
          workingCapitalStatus(r.workingCapital)),
      roa |-> OptionalStatus(r.roa, RoaThresholds),
      roe |-> OptionalStatus(r.roe, RoeThresholds),
      ros |-> OptionalStatus(r.ros, RosThresholds),
      grossProfitMargin |->
          OptionalStatus(r.grossProfitMargin, GrossProfitMarginThresholds),
      operatingProfitMargin |->
          OptionalStatus(r.operatingProfitMargin, OperatingProfitMarginThresholds),
      netProfitMargin |->
          OptionalStatus(r.netProfitMargin, NetProfitMarginThresholds) ]

(***************************************************************************)
(* JavaScript strings                                                      *)
(***************************************************************************)
Char(s, i) == SubSeq(s, i, i)

\* s.slice(i - 1): the characters of s from position i on
From(s, i) == SubSeq(s, i, Len(s))

Digits == {"0", "1", "2", "3", "4", "5", "6", "7", "8", "9"}

\* \s: space, no-break space, narrow no-break space, tab
WhiteSpace == {" ", "_", "~", "#"}

UpperCase == "ABCDEFGHIJKLMNOPQRSTUVWXYZ"

LowerCase == "abcdefghijklmnopqrstuvwxyz"

\* lower-case letters of the Cyrillic alphabet that have no Latin letter left
ExtraLetters == {"$", "'", "&", "!"}

\* \p{L}
Letters ==
    {Char(UpperCase, i) : i \in 1..26} \cup {Char(LowerCase, i) : i \in 1..26}
        \cup ExtraLetters \cup {"@"}

UpperLetters == {Char(UpperCase, i) : i \in 1..26}

LowerOf ==
    [c \in UpperLetters |->
        Char(LowerCase, CHOOSE i \in 1..26 : Char(UpperCase, i) = c)]

\* String.prototype.toLowerCase on one character
LowerChar(c) ==
    IF c = "@" THEN "i^" ELSE IF c \in UpperLetters THEN LowerOf[c] ELSE c

RECURSIVE toLowerCase(_)
toLowerCase(s) ==
    IF s = "" THEN "" ELSE LowerChar(Char(s, 1)) \o toLowerCase(From(s, 2))

\* s.replace(/[...]/g, '') for the characters of the set remove
RECURSIVE RemoveAll(_, _)
RemoveAll(s, remove) ==
    IF s = "" THEN ""
    ELSE (IF Char(s, 1) \in remove THEN "" ELSE Char(s, 1))
             \o RemoveAll(From(s, 2), remove)

\* s.replace(/[^...]/g, '') for the characters of the set keep
RECURSIVE KeepOnly(_, _)
KeepOnly(s, keep) ==
    IF s = "" THEN ""
    ELSE (IF Char(s, 1) \in keep THEN Char(s, 1) ELSE "")
             \o KeepOnly(From(s, 2), keep)

\* s.replace(/\s+/g, ' ')
RECURSIVE CollapseWhiteSpace(_)
CollapseWhiteSpace(s) ==
    IF s = "" THEN ""
    ELSE IF Char(s, 1) \in WhiteSpace
         THEN IF Len(s) > 1 /\ Char(s, 2) \in WhiteSpace
              THEN CollapseWhiteSpace(From(s, 2))
              ELSE " " \o CollapseWhiteSpace(From(s, 2))
         ELSE Char(s, 1) \o CollapseWhiteSpace(From(s, 2))

RECURSIVE TrimStart(_)
TrimStart(s) ==
    IF s # "" /\ Char(s, 1) \in WhiteSpace THEN TrimStart(From(s, 2)) ELSE s

RECURSIVE TrimEnd(_)
TrimEnd(s) ==
    IF s # "" /\ Char(s, Len(s)) \in WhiteSpace
    THEN TrimEnd(SubSeq(s, 1, Len(s) - 1)) ELSE s

\* String.prototype.trim
Trim(s) == TrimEnd(TrimStart(s))

StartsWith(s, c) == s # "" /\ Char(s, 1) = c

EndsWith(s, c) == s # "" /\ Char(s, Len(s)) = c

\* String.prototype.includes
Includes(s, word) ==
    \E i \in 1..(Len(s) - Len(word) + 1) : SubSeq(s, i, i + Len(word) - 1) = word

(***************************************************************************)
(* server/document-parser.ts: normalizeKey, parseNumericValue              *)
(***************************************************************************)

\* [\p{L}\p{N}\s]
KeyChars == Letters \cup Digits \cup WhiteSpace

\* the two replacements in the other order: punctuation between two spaces
\* leaves a double space behind
normalizeKey_collapseFirst(key) ==
    Trim(KeepOnly(CollapseWhiteSpace(toLowerCase(key)), KeyChars))

normalizeKey(key) ==
    Trim(CollapseWhiteSpace(KeepOnly(toLowerCase(key), KeyChars)))

Null == <<>>

RECURSIVE Pow10(_)
Pow10(k) == IF k = 0 THEN 1 ELSE 10 * Pow10(k - 1)

DigitValue(c) == CHOOSE v \in 0..9 : Char("0123456789", v + 1) = c

\* the value of a string of decimal digits
RECURSIVE DigitsValue(_)
DigitsValue(s) ==
    IF s = "" THEN 0
    ELSE 10 * DigitsValue(SubSeq(s, 1, Len(s) - 1)) + DigitValue(Char(s, Len(s)))

\* the longest prefix of s made of decimal digits
RECURSIVE DigitPrefix(_)
DigitPrefix(s) ==
    IF s # "" /\ Char(s, 1) \in Digits
    THEN Char(s, 1) \o DigitPrefix(From(s, 2)) ELSE ""

\* parseFloat on a string of digits and decimal points: the longest prefix
\* that is a decimal literal, NaN when there is none
parseFloat(s) ==
    LET int == DigitPrefix(s)
        rest == From(s, Len(int) + 1)
        frac == IF StartsWith(rest, ".") THEN DigitPrefix(From(rest, 2)) ELSE ""
    IN  IF int = "" /\ frac = "" THEN NaN
        ELSE Rat(DigitsValue(int \o frac), Pow10(Len(frac)))

\* [\s,\u00A0\u202F]
Separators == WhiteSpace \cup {","}

\* [\d.]
NumberChars == Digits \cup {"."}

\* -value
Neg(v) == [v EXCEPT !.num = -v.num]

\* the parenthesis flag never applied: "(123)" parses to 123
parseNumericValue_ignoreParens(str) ==
    IF str = "" THEN Null
    ELSE
      LET trimmed == Trim(str)
          isNegative == StartsWith(trimmed, "(") /\ EndsWith(trimmed, ")")
          inner == IF isNegative
                   THEN Trim(SubSeq(trimmed, 2, Len(trimmed) - 1)) ELSE trimmed
          unseparated == RemoveAll(inner, Separators)
          hasNegativeSign == StartsWith(unseparated, "-")
          unsigned == IF hasNegativeSign THEN From(unseparated, 2) ELSE unseparated
          value == parseFloat(KeepOnly(unsigned, NumberChars))
      IN  IF value = NaN THEN Null
          ELSE Def(IF hasNegativeSign THEN Neg(value) ELSE value)

\* one negation per flag: "(-5)" parses to 5
parseNumericValue_negateTwice(str) ==
    IF str = "" THEN Null
    ELSE
      LET trimmed == Trim(str)
          isNegative == StartsWith(trimmed, "(") /\ EndsWith(trimmed, ")")
          inner == IF isNegative
                   THEN Trim(SubSeq(trimmed, 2, Len(trimmed) - 1)) ELSE trimmed
          unseparated == RemoveAll(inner, Separators)
          hasNegativeSign == StartsWith(unseparated, "-")
          unsigned == IF hasNegativeSign THEN From(unseparated, 2) ELSE unseparated
          value == parseFloat(KeepOnly(unsigned, NumberChars))
          signed == IF hasNegativeSign THEN Neg(value) ELSE value
      IN  IF value = NaN THEN Null
          ELSE Def(IF isNegative THEN Neg(signed) ELSE signed)

parseNumericValue(str) ==
    IF str = "" THEN Null
    ELSE
      LET trimmed == Trim(str)
          isNegative == StartsWith(trimmed, "(") /\ EndsWith(trimmed, ")")
          inner == IF isNegative
                   THEN Trim(SubSeq(trimmed, 2, Len(trimmed) - 1)) ELSE trimmed
          unseparated == RemoveAll(inner, Separators)
          hasNegativeSign == StartsWith(unseparated, "-")
          unsigned == IF hasNegativeSign THEN From(unseparated, 2) ELSE unseparated
          value == parseFloat(KeepOnly(unsigned, NumberChars))
      IN  IF value = NaN THEN Null
          ELSE Def(IF isNegative \/ hasNegativeSign THEN Neg(value) ELSE value)

(***************************************************************************)
(* Map<string, number>: a sequence of entries with distinct keys, in       *)
(* insertion order                                                         *)
(***************************************************************************)
Min(S) == CHOOSE x \in S : \A y \in S : x <= y

MapHas(m, k) == \E j \in 1..Len(m) : m[j].key = k

MapGet(m, k) == m[CHOOSE j \in 1..Len(m) : m[j].key = k].value

\* a present key keeps the value it has
MapSet_keepFirst(m, k, v) ==
    IF MapHas(m, k) THEN m ELSE Append(m, [key |-> k, value |-> v])

\* Map.prototype.set: a present key keeps its position and takes the value
MapSet(m, k, v) ==
    IF MapHas(m, k)
    THEN [j \in 1..Len(m) |-> IF m[j].key = k THEN [key |-> k, value |-> v] ELSE m[j]]
    ELSE Append(m, [key |-> k, value |-> v])

\* Array.prototype.slice(0, n)
Slice(seq, n) == SubSeq(seq, 1, IF Len(seq) < n THEN Len(seq) ELSE n)

\* s.split(' ')
RECURSIVE Split(_)
Split(s) ==
    IF \E i \in 1..Len(s) : Char(s, i) = " "
    THEN LET i == Min({j \in 1..Len(s) : Char(s, j) = " "})
         IN  <<SubSeq(s, 1, i - 1)>> \o Split(From(s, i + 1))
    ELSE <<s>>

(***************************************************************************)
(* The synonym lists and the statutory code table                          *)
(***************************************************************************)
\* the findValue calls of parseFinancialDataFromText, in source order
DocumentFields ==
    <<
      [ name |-> "currentAssets", optional |-> FALSE,
        possibleKeys |-> <<
          "itogo po razdelu ii", "ii oborotnye aktivy", "oborotnye aktivy",
          "oborotnye aktivy vsego", "current assets", "tekuxie aktivy" >> ],
      [ name |-> "cashAndEquivalents", optional |-> FALSE,
        possibleKeys |-> <<
          "denejnye sredstva i denejnye &kvivalenty", "denejnye sredstva",
          "cash and equivalents", "cash", "den'gi" >> ],
      [ name |-> "shortTermInvestments", optional |-> FALSE,
        possibleKeys |-> <<
          "finansovye vlojeniw iskl!qaw denejnye &kvivalenty",
          "kratkosroqnye finansovye vlojeniw", "finansovye vlojeniw",
          "kratkosroqnye investicii", "short term investments", "kfv" >> ],
      [ name |-> "accountsReceivable", optional |-> FALSE,
        possibleKeys |-> <<
          "debitorskaw zadoljennost'", "accounts receivable", "debitory",
          "debitorka" >> ],
      [ name |-> "inventory", optional |-> FALSE,
        possibleKeys |-> <<
          "zapasy", "inventory", "tovarnomaterial'nye zapasy", "tmz" >> ],
      [ name |-> "totalAssets", optional |-> FALSE,
        possibleKeys |-> <<
          "balans", "aktivy balans", "vsego aktivov", "aktivy vsego",
          "total assets", "aktivy", "itogo aktivov" >> ],
      [ name |-> "currentLiabilities", optional |-> FALSE,
        possibleKeys |-> <<
          "itogo po razdelu v", "v kratkosroqnye obwzatel'stva",
          "kratkosroqnye obwzatel'stva", "current liabilities",
          "tekuxie obwzatel'stva" >> ],
      [ name |-> "shortTermDebt", optional |-> FALSE,
        possibleKeys |-> <<
          "zaemnye sredstva", "kratkosroqnye zaemnye sredstva",
          "kratkosroqny$ dolg", "short term debt", "za$my i kredity" >> ],
      [ name |-> "totalLiabilities", optional |-> FALSE,
        possibleKeys |-> <<
          "vsego obwzatel'stv", "obwzatel'stva vsego", "total liabilities",
          "obwzatel'stva", "passivy", "itogo obwzatel'stv" >> ],
      [ name |-> "equity", optional |-> FALSE,
        possibleKeys |-> <<
          "itogo po razdelu iii", "iii kapital i rezervy",
          "kapital i rezervy", "sobstvenny$ kapital", "equity", "kapital",
          "sobstvennye sredstva" >> ],
      [ name |-> "longTermDebt", optional |-> FALSE,
        possibleKeys |-> <<
          "itogo po razdelu iv", "iv dolgosroqnye obwzatel'stva",
          "dolgosroqnye obwzatel'stva", "dolgosroqnye zaemnye sredstva",
          "dolgosroqny$ dolg", "long term debt" >> ],
      [ name |-> "revenue", optional |-> TRUE,
        possibleKeys |-> <<
          "vyruqka", "revenue", "dohod", "vyruqka ot prodaj" >> ],
      [ name |-> "netIncome", optional |-> TRUE,
        possibleKeys |-> <<
          "qistaw pribyl' ubytok", "qistaw pribyl'", "net income",
          "pribyl'", "qp" >> ],
      [ name |-> "operatingIncome", optional |-> TRUE,
        possibleKeys |-> <<
          "pribyl' ubytok ot prodaj", "operacionnaw pribyl'",
          "operating income", "pribyl' ot prodaj" >> ],
      [ name |-> "grossProfit", optional |-> TRUE,
        possibleKeys |-> <<
          "valovaw pribyl' ubytok", "valovaw pribyl'", "gross profit" >> ],
      [ name |-> "intangibleAssets", optional |-> TRUE,
        possibleKeys |-> <<
          "nematerial'nye aktivy", "intangible assets", "nma" >> ],
      [ name |-> "rdResults", optional |-> TRUE,
        possibleKeys |-> <<
          "rezul'taty issledovani$ i razrabotok",
          "research and development results", "niokr" >> ],
      [ name |-> "intangibleExplorationAssets", optional |-> TRUE,
        possibleKeys |-> <<
          "nematerial'nye poiskovye aktivy", "intangible exploration assets" >> ],
      [ name |-> "tangibleExplorationAssets", optional |-> TRUE,
        possibleKeys |-> <<
          "material'nye poiskovye aktivy", "tangible exploration assets" >> ],
      [ name |-> "fixedAssets", optional |-> TRUE,
        possibleKeys |-> <<
          "osnovnye sredstva", "fixed assets", "os" >> ],
      [ name |-> "profitableInvestmentsInTangibleAssets", optional |-> TRUE,
        possibleKeys |-> <<
          "dohodnye vlojeniw v material'nye cennosti",
          "profitable investments in tangible assets" >> ],
      [ name |-> "financialInvestments", optional |-> TRUE,
        possibleKeys |-> <<
          "finansovye vlojeniw", "financial investments",
          "dolgosroqnye finansovye vlojeniw" >> ],
      [ name |-> "deferredTaxAssets", optional |-> TRUE,
        possibleKeys |-> <<
          "otlojennye nalogovye aktivy", "deferred tax assets", "ona" >> ],
      [ name |-> "otherNonCurrentAssets", optional |-> TRUE,
        possibleKeys |-> <<
          "proqie vneoborotnye aktivy", "other non current assets" >> ],
      [ name |-> "otherCurrentAssets", optional |-> TRUE,
        possibleKeys |-> <<
          "proqie oborotnye aktivy", "other current assets" >> ],
      [ name |-> "authorizedCapital", optional |-> TRUE,
        possibleKeys |-> <<
          "ustavny$ kapital skladoqny$ kapital ustavny$ fond vklady tovarixe$",
          "ustavny$ kapital", "authorized capital" >> ],
      [ name |-> "retainedEarnings", optional |-> TRUE,
        possibleKeys |-> <<
          "neraspredelennaw pribyl' nepokryty$ ubytok",
          "neraspredelennaw pribyl'", "retained earnings" >> ],
      [ name |-> "revaluationReserve", optional |-> TRUE,
        possibleKeys |-> <<
          "pereocenka vneoborotnyh aktivov", "revaluation reserve" >> ],
      [ name |-> "additionalCapital", optional |-> TRUE,
        possibleKeys |-> <<
          "dobavoqny$ kapital bez pereocenki", "dobavoqny$ kapital",
          "additional capital" >> ],
      [ name |-> "borrowedFundsLongTerm", optional |-> TRUE,
        possibleKeys |-> <<
          "zaemnye sredstva dolgosroqnye", "long term borrowed funds" >> ],
      [ name |-> "deferredTaxLiabilities", optional |-> TRUE,
        possibleKeys |-> <<
          "otlojennye nalogovye obwzatel'stva", "deferred tax liabilities",
          "ono" >> ],
      [ name |-> "estimatedLiabilities", optional |-> TRUE,
        possibleKeys |-> <<
          "ocenoqnye obwzatel'stva", "estimated liabilities" >> ],
      [ name |-> "otherLongTermLiabilities", optional |-> TRUE,
        possibleKeys |-> <<
          "proqie dolgosroqnye obwzatel'stva", "proqie obwzatel'stva",
          "other long term liabilities" >> ],
      [ name |-> "accountsPayable", optional |-> TRUE,
        possibleKeys |-> <<
          "kreditorskaw zadoljennost'", "accounts payable", "kreditory" >> ],
      [ name |-> "deferredIncome", optional |-> TRUE,
        possibleKeys |-> <<
          "dohody buduxih periodov", "deferred income" >> ],
      [ name |-> "estimatedLiabilitiesShortTerm", optional |-> TRUE,
        possibleKeys |-> <<
          "ocenoqnye obwzatel'stva kratkosroqnye",
          "short term estimated liabilities" >> ],
      [ name |-> "otherCurrentLiabilities", optional |-> TRUE,
        possibleKeys |-> <<
          "proqie kratkosroqnye obwzatel'stva", "other current liabilities" >> ]
    >>

\* the findValue calls of parseExcelFile, in source order
SpreadsheetFields ==
    <<
      [ name |-> "currentAssets", optional |-> FALSE,
        possibleKeys |-> <<
          "oborotnye aktivy", "oborotnye aktivy vsego", "current assets",
          "tekuxie aktivy", "ii oborotnye aktivy", "itogo po razdelu ii" >> ],
      [ name |-> "cashAndEquivalents", optional |-> FALSE,
        possibleKeys |-> <<
          "denejnye sredstva", "denejnye sredstva i denejnye &kvivalenty",
          "cash and equivalents", "denejnye sredstva i &kvivalenty", "cash",
          "den'gi" >> ],
      [ name |-> "shortTermInvestments", optional |-> FALSE,
        possibleKeys |-> <<
          "kratkosroqnye investicii", "kratkosroqnye finansovye vlojeniw",
          "short term investments", "finansovye vlojeniw", "kfv" >> ],
      [ name |-> "accountsReceivable", optional |-> FALSE,
        possibleKeys |-> <<
          "debitorskaw zadoljennost'", "accounts receivable", "debitory",
          "debitorka" >> ],
      [ name |-> "inventory", optional |-> FALSE,
        possibleKeys |-> <<
          "zapasy", "inventory", "tovarno material'nye zapasy",
          "tovarnomaterial'nye zapasy", "tmz" >> ],
      [ name |-> "totalAssets", optional |-> FALSE,
        possibleKeys |-> <<
          "vsego aktivov", "aktivy vsego", "total assets", "aktivy",
          "balans", "itogo aktivov" >> ],
      [ name |-> "currentLiabilities", optional |-> FALSE,
        possibleKeys |-> <<
          "kratkosroqnye obwzatel'stva",
          "kratkosroqnye obwzatel'stva vsego", "current liabilities",
          "tekuxie obwzatel'stva", "v kratkosroqnye obwzatel'stva",
          "itogo po razdelu v" >> ],
      [ name |-> "shortTermDebt", optional |-> FALSE,
        possibleKeys |-> <<
          "kratkosroqny$ dolg", "kratkosroqnye za$my", "short term debt",
          "kratkosroqnye kredity", "za$my i kredity" >> ],
      [ name |-> "totalLiabilities", optional |-> FALSE,
        possibleKeys |-> <<
          "vsego obwzatel'stv", "obwzatel'stva vsego", "total liabilities",
          "obwzatel'stva", "passivy", "itogo obwzatel'stv" >> ],
      [ name |-> "equity", optional |-> FALSE,
        possibleKeys |-> <<
          "sobstvenny$ kapital", "kapital i rezervy", "equity", "kapital",
          "sobstvennye sredstva", "iii kapital i rezervy",
          "itogo po razdelu iii" >> ],
      [ name |-> "longTermDebt", optional |-> FALSE,
        possibleKeys |-> <<
          "dolgosroqny$ dolg", "dolgosroqnye za$my", "long term debt",
          "dolgosroqnye obwzatel'stva", "dolgosroqnye kredity" >> ],
      [ name |-> "revenue", optional |-> TRUE,
        possibleKeys |-> <<
          "vyruqka", "revenue", "dohod", "vyruqka ot prodaj" >> ],
      [ name |-> "netIncome", optional |-> TRUE,
        possibleKeys |-> <<
          "qistaw pribyl'", "qistaw pribyl' ubytok", "net income",
          "pribyl'", "qp" >> ],
      [ name |-> "operatingIncome", optional |-> TRUE,
        possibleKeys |-> <<
          "operacionnaw pribyl'", "operating income", "pribyl' ot prodaj",
          "operacionny$ dohod" >> ],
      [ name |-> "grossProfit", optional |-> TRUE,
        possibleKeys |-> <<
          "valovaw pribyl' ubytok", "valovaw pribyl'", "gross profit" >> ],
      [ name |-> "profitBeforeTax", optional |-> TRUE,
        possibleKeys |-> <<
          "pribyl' ubytok do nalogooblojeniw", "pribyl' do nalogooblojeniw",
          "profit before tax" >> ]
    >>

\* code 1230 filed under the label of the receivables
codeToFieldMap_receivable ==
    <<
      <<"1250", "denejnye sredstva i denejnye &kvivalenty">>,
      <<"1240", "finansovye vlojeniw iskl!qaw denejnye &kvivalenty">>,
      <<"1230", "debitorskaw zadoljennost'">>,
      <<"1220", "nalog na dobavlennu! stoimost'">>,
      <<"1210", "zapasy">>,
      <<"1260", "proqie oborotnye aktivy">>,
      <<"1200", "itogo po razdelu ii">>,
      <<"1100", "itogo po razdelu i">>,
      <<"1110", "nematerial'nye aktivy">>,
      <<"1120", "rezul'taty issledovani$ i razrabotok">>,
      <<"1130", "nematerial'nye poiskovye aktivy">>,
      <<"1140", "material'nye poiskovye aktivy">>,
      <<"1150", "osnovnye sredstva">>,
      <<"1160", "dohodnye vlojeniw v material'nye cennosti">>,
      <<"1170", "finansovye vlojeniw">>,
      <<"1180", "otlojennye nalogovye aktivy">>,
      <<"1190", "proqie vneoborotnye aktivy">>,
      <<"1300", "itogo po razdelu iii">>,
      <<"1310", "ustavny$ kapital">>,
      <<"1360", "rezervny$ kapital">>,
      <<"1370", "neraspredelennaw pribyl'">>,
      <<"1400", "itogo po razdelu iv">>,
      <<"1410", "zaemnye sredstva">>,
      <<"1420", "otlojennye nalogovye obwzatel'stva">>,
      <<"1500", "itogo po razdelu v">>,
      <<"1510", "zaemnye sredstva">>,
      <<"1520", "kreditorskaw zadoljennost'">>,
      <<"1600", "balans">>,
      <<"1700", "balans">>
    >>

\* the statutory balance-sheet codes, in the order of the Map literal
codeToFieldMap ==
    <<
      <<"1250", "denejnye sredstva i denejnye &kvivalenty">>,
      <<"1240", "finansovye vlojeniw iskl!qaw denejnye &kvivalenty">>,
      <<"1230", "finansovye vlojeniw">>,
      <<"1220", "nalog na dobavlennu! stoimost'">>,
      <<"1210", "zapasy">>,
      <<"1260", "proqie oborotnye aktivy">>,
      <<"1200", "itogo po razdelu ii">>,
      <<"1100", "itogo po razdelu i">>,
      <<"1110", "nematerial'nye aktivy">>,
      <<"1120", "rezul'taty issledovani$ i razrabotok">>,
      <<"1130", "nematerial'nye poiskovye aktivy">>,
      <<"1140", "material'nye poiskovye aktivy">>,
      <<"1150", "osnovnye sredstva">>,
      <<"1160", "dohodnye vlojeniw v material'nye cennosti">>,
      <<"1170", "finansovye vlojeniw">>,
      <<"1180", "otlojennye nalogovye aktivy">>,
      <<"1190", "proqie vneoborotnye aktivy">>,
      <<"1300", "itogo po razdelu iii">>,
      <<"1310", "ustavny$ kapital">>,
      <<"1360", "rezervny$ kapital">>,
      <<"1370", "neraspredelennaw pribyl'">>,
      <<"1400", "itogo po razdelu iv">>,
      <<"1410", "zaemnye sredstva">>,
      <<"1420", "otlojennye nalogovye obwzatel'stva">>,
      <<"1500", "itogo po razdelu v">>,
      <<"1510", "zaemnye sredstva">>,
      <<"1520", "kreditorskaw zadoljennost'">>,
      <<"1600", "balans">>,
      <<"1700", "balans">>
    >>


\* every synonym of the two resolvers
Synonyms ==
    UNION { {DocumentFields[f].possibleKeys[i] :
                i \in 1..Len(DocumentFields[f].possibleKeys)} :
            f \in 1..Len(DocumentFields) }
    \cup
    UNION { {SpreadsheetFields[f].possibleKeys[i] :
                i \in 1..Len(SpreadsheetFields[f].possibleKeys)} :
            f \in 1..Len(SpreadsheetFields) }

\* normalizeKey(key) for the synonyms, computed once
normalizedSynonym == [k \in Synonyms |-> normalizeKey(k)]

\* normalizedSearchKey.split(' ') for the synonyms, computed once
synonymWords == [k \in Synonyms |-> Split(normalizedSynonym[k])]

(***************************************************************************)
(* server/document-parser.ts, server/excel-parser.ts: findValue            *)
(***************************************************************************)
Found(v) == [kind |-> "value", value |-> v]

\* the Error thrown for a required field: the parts its message is made of
RequiredFieldMissing(possibleKeys, found, cap) ==
    [ kind |-> "error",
      field |-> possibleKeys[1],
      suggested |-> Slice(possibleKeys, 3),
      found |-> Slice(found, cap),
      ellipsis |-> Len(found) > cap ]

\* the synonyms whose normalized form is a key of the map
ExactMatches(m, possibleKeys) ==
    {i \in 1..Len(possibleKeys) : MapHas(m, normalizedSynonym[possibleKeys[i]])}

\* document resolver: the entries holding every word of length > 2 of the
\* synonym, none when the synonym has no such word
PartialMatches(m, synonym) ==
    LET words == SelectSeq(synonymWords[synonym], LAMBDA w : Len(w) > 2)
    IN  {j \in 1..Len(m) :
            /\ \A n \in 1..Len(words) : Includes(m[j].key, words[n])
            /\ Len(words) > 0}

\* spreadsheet resolver: every word of the synonym must be longer than 2
\* and be held by the entry
PartialMatchesExcel(m, synonym) ==
    LET words == synonymWords[synonym]
    IN  {j \in 1..Len(m) :
            \A n \in 1..Len(words) :
                Len(words[n]) > 2 /\ Includes(m[j].key, words[n])}

\* one pass over the synonyms, each tried exactly and then partially
findValue_onePass(m, found, possibleKeys, optional) ==
    LET hits == {i \in 1..Len(possibleKeys) :
                    \/ MapHas(m, normalizedSynonym[possibleKeys[i]])
                    \/ PartialMatches(m, possibleKeys[i]) # {}}
    IN  IF hits # {}
        THEN LET i == Min(hits)
             IN  IF MapHas(m, normalizedSynonym[possibleKeys[i]])
                 THEN Found(MapGet(m, normalizedSynonym[possibleKeys[i]]))
                 ELSE Found(m[Min(PartialMatches(m, possibleKeys[i]))].value)
        ELSE IF optional THEN Found(Zero)
        ELSE RequiredFieldMissing(possibleKeys, found, 15)

\* server/document-parser.ts
findValue(m, found, possibleKeys, optional) ==
    LET exact == ExactMatches(m, possibleKeys)
        partial == {i \in 1..Len(possibleKeys) :
                       PartialMatches(m, possibleKeys[i]) # {}}
    IN  IF exact # {}
        THEN Found(MapGet(m, normalizedSynonym[possibleKeys[Min(exact)]]))
        ELSE IF partial # {}
        THEN Found(m[Min(PartialMatches(m, possibleKeys[Min(partial)]))].value)
        ELSE IF optional THEN Found(Zero)
        ELSE RequiredFieldMissing(possibleKeys, found, 15)

\* the list of found labels put into the message whole
findValueExcel_uncapped(m, found, possibleKeys, optional) ==
    LET exact == ExactMatches(m, possibleKeys)
        partial == {i \in 1..Len(possibleKeys) :
                       PartialMatchesExcel(m, possibleKeys[i]) # {}}
    IN  IF exact # {}
        THEN Found(MapGet(m, normalizedSynonym[possibleKeys[Min(exact)]]))
        ELSE IF partial # {}
        THEN Found(m[Min(PartialMatchesExcel(m, possibleKeys[Min(partial)]))].value)
        ELSE IF optional THEN Found(Zero)
        ELSE RequiredFieldMissing(possibleKeys, found, Len(found) + 1)

\* server/excel-parser.ts
findValueExcel(m, found, possibleKeys, optional) ==
    LET exact == ExactMatches(m, possibleKeys)
        partial == {i \in 1..Len(possibleKeys) :
                       PartialMatchesExcel(m, possibleKeys[i]) # {}}
    IN  IF exact # {}
        THEN Found(MapGet(m, normalizedSynonym[possibleKeys[Min(exact)]]))
        ELSE IF partial # {}
        THEN Found(m[Min(PartialMatchesExcel(m, possibleKeys[Min(partial)]))].value)
        ELSE IF optional THEN Found(Zero)
        ELSE RequiredFieldMissing(possibleKeys, found, 10)

(***************************************************************************)
(* server/document-parser.ts: the line patterns of parseFinancialDataFromText *)
(***************************************************************************)
Max(S) == CHOOSE x \in S : \A y \in S : x >= y

AllIn(s, chars) == \A i \in 1..Len(s) : Char(s, i) \in chars

\* /^\d{4}$/
codePattern(s) == Len(s) = 4 /\ AllIn(s, Digits)

\* [\d\s,.()\-+]
ValueChars == Digits \cup WhiteSpace \cup {",", ".", "(", ")", "-", "+"}

\* the last position of the whitespace run that starts at position i, and
\* i - 1 when position i holds no whitespace
RunEnd(s, i) ==
    CHOOSE j \in (i - 1)..Len(s) :
        /\ \A k \in i..j : Char(s, k) \in WhiteSpace
        /\ j = Len(s) \/ Char(s, j + 1) \notin WhiteSpace

\* (?:\s+([\d\s,.()\-+]+?))?(?:\s+([\d\s,.()\-+]+?))?$ on a string of
\* ValueChars: nothing, or whitespace and at least one more character
TailMatches(u) == u = "" \/ (Char(u, 1) \in WhiteSpace /\ Len(u) >= 2)

\* the positions where the second \s+ of the first pattern can end when the
\* label is the first a characters: after the label a whitespace run, four
\* digits and a whitespace run, and then ValueChars to the end
ValueStarts1(s, a) ==
    LET e1 == RunEnd(s, a + 1)
        e2 == RunEnd(s, e1 + 5)
    IN  IF /\ e1 >= a + 1
           /\ e1 + 4 <= Len(s)
           /\ codePattern(SubSeq(s, e1 + 1, e1 + 4))
        THEN {k \in (e1 + 5)..e2 :
                 From(s, k + 1) # "" /\ AllIn(From(s, k + 1), ValueChars)}
        ELSE {}

\* the first alternative of a lazy group followed by the optional groups:
\* the shortest prefix of t that leaves a tail the optional groups match
FirstValue(t) ==
    SubSeq(t, 1, Min({b \in 1..Len(t) : TailMatches(From(t, b + 1))}))

\* line.match(singleLinePatterns[0]): groups 1 and 3, <<>> for no match.
\* The lazy label takes the shortest prefix that lets the rest match; the
\* greedy \s+ before the value takes the longest run that does.
singleLinePattern1(s) ==
    LET labels == {a \in 1..Len(s) : ValueStarts1(s, a) # {}}
    IN  IF labels = {} THEN <<>>
        ELSE LET a == Min(labels)
                 k == Max(ValueStarts1(s, a))
             IN  <<[itemName |-> Trim(SubSeq(s, 1, a)),
                    valueStr |-> FirstValue(From(s, k + 1))]>>

\* the positions where the \s+ of the second pattern can end when the label
\* is the first a characters: at least three ValueChars follow to the end
ValueStarts2(s, a) ==
    {k \in (a + 1)..RunEnd(s, a + 1) :
        Len(s) - k >= 3 /\ AllIn(From(s, k + 1), ValueChars)}

\* line.match(singleLinePatterns[1]): groups 1 and 2, <<>> for no match
singleLinePattern2(s) ==
    LET labels == {a \in 1..Len(s) : ValueStarts2(s, a) # {}}
    IN  IF labels = {} THEN <<>>
        ELSE LET a == Min(labels)
                 k == Max(ValueStarts2(s, a))
             IN  <<[itemName |-> Trim(SubSeq(s, 1, a)),
                    valueStr |-> From(s, k + 1)]>>

\* the second pattern tried when the value of the first does not parse
singleLineMatch_fallThrough(s) ==
    IF /\ singleLinePattern1(s) # <<>>
       /\ IsDefined(parseNumericValue(singleLinePattern1(s)[1].valueStr))
    THEN singleLinePattern1(s)
    ELSE singleLinePattern2(s)

\* the first pattern that matches the line decides (break)
singleLineMatch(s) ==
    IF singleLinePattern1(s) # <<>> THEN singleLinePattern1(s)
    ELSE singleLinePattern2(s)

(***************************************************************************)
(* server/document-parser.ts: the three strategies of                      *)
(* parseFinancialDataFromText, one line at a time. Each gives the entry    *)
(* the line makes the loop record, <<>> when it records nothing.           *)
(***************************************************************************)
Entry(k, v, label) == <<[key |-> k, value |-> v, label |-> label]>>

\* the value is read from the line after the label, the code line itself
multiLineField_valueAfterLabel(ls, i) ==
    IF codePattern(ls[i]) THEN <<>>
    ELSE IF i + 2 <= Len(ls) /\ codePattern(ls[i + 1])
    THEN LET value == parseNumericValue(ls[i + 1])
         IN  IF IsDefined(value) /\ normalizeKey(ls[i]) # ""
             THEN Entry(normalizeKey(ls[i]), Val(value), ls[i])
             ELSE <<>>
    ELSE <<>>

\* Strategy 1 on line i: label, then a code line, then the value line
multiLineField(ls, i) ==
    IF codePattern(ls[i]) THEN <<>>
    ELSE IF i + 2 <= Len(ls) /\ codePattern(ls[i + 1])
    THEN LET value == parseNumericValue(ls[i + 2])
         IN  IF IsDefined(value) /\ normalizeKey(ls[i]) # ""
             THEN Entry(normalizeKey(ls[i]), Val(value), ls[i])
             ELSE <<>>
    ELSE <<>>

\* the single-line loop entered whatever the multi-line loop found
singleLineApplies_always(found) == TRUE

\* Strategy 2 is entered when foundKeys.length === 0
singleLineApplies(found) == Len(found) = 0

\* Strategy 2 on line i
singleLineField(ls, i) ==
    LET match == singleLineMatch(ls[i])
    IN  IF match = <<>> THEN <<>>
        ELSE LET value == parseNumericValue(match[1].valueStr)
                 normalizedKey == normalizeKey(match[1].itemName)
             IN  IF IsDefined(value) /\ normalizedKey # ""
                 THEN Entry(normalizedKey, Val(value), match[1].itemName)
                 ELSE <<>>

\* codeToFieldMap.get(code): <<>> for a code the table does not hold
codeToFieldMapGet(code) ==
    LET rows == {r \in 1..Len(codeToFieldMap) : codeToFieldMap[r][1] = code}
    IN  IF rows = {} THEN <<>> ELSE <<codeToFieldMap[Min(rows)][2]>>

\* the entry is recorded over one the map already holds
codeField_overwrite(ls, i, m) ==
    IF codePattern(ls[i]) /\ codeToFieldMapGet(ls[i]) # <<>> /\ i + 1 <= Len(ls)
    THEN LET fieldName == codeToFieldMapGet(ls[i])[1]
             value == parseNumericValue(ls[i + 1])
             normalizedKey == normalizeKey(fieldName)
         IN  IF IsDefined(value) /\ normalizedKey # ""
             THEN Entry(normalizedKey, Val(value),
                        fieldName \o " (kod " \o ls[i] \o ")")
             ELSE <<>>
    ELSE <<>>

\* Strategy 3 on line i, given the map built so far
codeField(ls, i, m) ==
    IF codePattern(ls[i]) /\ codeToFieldMapGet(ls[i]) # <<>> /\ i + 1 <= Len(ls)
    THEN LET fieldName == codeToFieldMapGet(ls[i])[1]
             value == parseNumericValue(ls[i + 1])
             normalizedKey == normalizeKey(fieldName)
         IN  IF IsDefined(value) /\ normalizedKey # "" /\ ~MapHas(m, normalizedKey)
             THEN Entry(normalizedKey, Val(value),
                        fieldName \o " (kod " \o ls[i] \o ")")
             ELSE <<>>
    ELSE <<>>

(***************************************************************************)
(* shared/schema.ts: financialDataSchema on the amounts; the fields it     *)
(* rejects                                                                 *)
(***************************************************************************)
PositiveFields == {"currentAssets", "totalAssets", "equity"}

NonNegativeFields ==
    { "cashAndEquivalents", "shortTermInvestments", "accountsReceivable",
      "inventory", "currentLiabilities", "shortTermDebt", "totalLiabilities",
      "longTermDebt" }

\* currentAssets taken for a field that may be 0
financialDataSchema_currentAssetsNonNegative(d) ==
    {name \in PositiveFields \ {"currentAssets"} : d[name].num <= 0}
        \cup {name \in NonNegativeFields \cup {"currentAssets"} : d[name].num < 0}

financialDataSchema(d) ==
    {name \in PositiveFields : d[name].num <= 0}
        \cup {name \in NonNegativeFields : d[name].num < 0}

\* the record returned without financialDataSchema.parse
mapFields_unvalidated(m, found) ==
    LET results == [f \in 1..Len(DocumentFields) |->
                       findValue(m, found, DocumentFields[f].possibleKeys,
                                 DocumentFields[f].optional)]
        thrown == {f \in 1..Len(DocumentFields) : results[f].kind = "error"}
        names == {DocumentFields[f].name : f \in 1..Len(DocumentFields)}
        financialData ==
            [name \in names |->
                results[CHOOSE f \in 1..Len(DocumentFields) :
                            DocumentFields[f].name = name].value]
    IN  IF thrown # {} THEN results[Min(thrown)]
        ELSE [kind |-> "data", data |-> financialData]

\* the error of the last call that would throw instead of the first
mapFields_lastThrow(m, found) ==
    LET results == [f \in 1..Len(DocumentFields) |->
                       findValue(m, found, DocumentFields[f].possibleKeys,
                                 DocumentFields[f].optional)]
        thrown == {f \in 1..Len(DocumentFields) : results[f].kind = "error"}
        names == {DocumentFields[f].name : f \in 1..Len(DocumentFields)}
        financialData ==
            [name \in names |->
                results[CHOOSE f \in 1..Len(DocumentFields) :
                            DocumentFields[f].name = name].value]
    IN  IF thrown # {} THEN results[Max(thrown)]
        ELSE IF financialDataSchema(financialData) # {}
        THEN [kind |-> "invalid", issues |-> financialDataSchema(financialData)]
        ELSE [kind |-> "data", data |-> financialData]

\* the object literal of findValue calls, evaluated in order: the first
\* call that throws ends the function; then financialDataSchema.parse
mapFields(m, found) ==
    LET results == [f \in 1..Len(DocumentFields) |->
                       findValue(m, found, DocumentFields[f].possibleKeys,
                                 DocumentFields[f].optional)]
        thrown == {f \in 1..Len(DocumentFields) : results[f].kind = "error"}
        names == {DocumentFields[f].name : f \in 1..Len(DocumentFields)}
        financialData ==
            [name \in names |->
                results[CHOOSE f \in 1..Len(DocumentFields) :
                            DocumentFields[f].name = name].value]
    IN  IF thrown # {} THEN results[Min(thrown)]
        ELSE IF financialDataSchema(financialData) # {}
        THEN [kind |-> "invalid", issues |-> financialDataSchema(financialData)]
        ELSE [kind |-> "data", data |-> financialData]

\* server/excel-parser.ts parseExcelFile, from the filled map on: the object
\* literal of findValue calls in order, financialDataSchema.parse, and the
\* catch that rethrows any Error with the prefix before its message
mapFieldsExcel(m, found) ==
    LET results == [f \in 1..Len(SpreadsheetFields) |->
                       findValueExcel(m, found, SpreadsheetFields[f].possibleKeys,
                                      SpreadsheetFields[f].optional)]
        thrown == {f \in 1..Len(SpreadsheetFields) : results[f].kind = "error"}
        names == {SpreadsheetFields[f].name : f \in 1..Len(SpreadsheetFields)}
        financialData ==
            [name \in names |->
                results[CHOOSE f \in 1..Len(SpreadsheetFields) :
                            SpreadsheetFields[f].name = name].value]
    IN  IF thrown # {}
        THEN [prefix |-> "O&ibka parsinga Excel fa$la: "] @@ results[Min(thrown)]
        ELSE IF financialDataSchema(financialData) # {}
        THEN [kind |-> "invalid", issues |-> financialDataSchema(financialData)]
        ELSE [kind |-> "data", data |-> financialData]

(***************************************************************************)
(* The calculator run: normalize, compute_ratios, assess on one record.    *)
(* The functions are also called on per-year records that never passed the *)
(* schema (routes, historical periods), so amounts range over zero and     *)
(* negative values too.                                                    *)
(***************************************************************************)
MaxUnits == 5

\* multiples of 30000, the grain of the amounts of the sample template
Amounts == {k * 30000 : k \in -1..MaxUnits}

OptionalAmounts == {Undefined} \cup {Def(a) : a \in {-30000, 0, 30000}}

\* a record that balances, from which the families below vary some fields
BaseRecord ==
    [ currentAssets |-> 150000, cashAndEquivalents |-> 45000,
      shortTermInvestments |-> 0, accountsReceivable |-> 70000,
      inventory |-> 35000, totalAssets |-> 300000,
      currentLiabilities |-> 60000, shortTermDebt |-> 20000,
      totalLiabilities |-> 120000, equity |-> 180000, longTermDebt |-> 60000,
      revenue |-> Undefined, netIncome |-> Undefined,
      operatingIncome |-> Undefined, grossProfit |-> Undefined ]

LiquidityRecords ==
    { [BaseRecord EXCEPT !.currentAssets = ca, !.currentLiabilities = cl,
                         !.inventory = inv, !.cashAndEquivalents = cash,
                         !.shortTermInvestments = sti] :
        ca \in Amounts, cl \in Amounts, inv \in {0, 30000},
        cash \in {0, 30000}, sti \in {0, 30000} }

StabilityRecords ==
    { [BaseRecord EXCEPT !.totalAssets = ta, !.equity = eq,
                         !.longTermDebt = ltd, !.currentLiabilities = cl,
                         !.totalLiabilities = tl] :
        ta \in Amounts, eq \in Amounts, ltd \in {0, 60000},
        cl \in {0, 30000, 60000},
        tl \in {0, 30000, 120000} }

ProfitabilityRecords ==
    { [BaseRecord EXCEPT !.revenue = rev, !.netIncome = ni,
                         !.grossProfit = gp, !.operatingIncome = oi] :
        rev \in OptionalAmounts, ni \in OptionalAmounts,
        gp \in {Undefined, Def(30000)}, oi \in {Undefined, Def(30000)} }

\* records around the 1% tolerance of the balance check: equity off by
\* nothing, by exactly 1% of totalAssets, and by one more than that
BalanceRecords ==
    { [BaseRecord EXCEPT !.equity = eq, !.totalLiabilities = tl] :
        eq \in {180000, 177000, 183000, 176999, 183001},
        tl \in {0, 120000, 123000} }

CalcInputs ==
    LiquidityRecords \cup StabilityRecords \cup ProfitabilityRecords
        \cup BalanceRecords

NoRecord == <<>>

\* the variables of the calculator run while another component is modelled
CalcIdle ==
    /\ data = NoRecord
    /\ normalized = NoRecord
    /\ mismatch = FALSE
    /\ ratios = NoRecord
    /\ evaluated = NoRecord

\* the variables of the string functions while another component is modelled
TextIdle ==
    /\ inputStr = ""
    /\ parsedValue = <<>>
    /\ normKey = ""
    /\ normKey2 = ""

\* the variables of the resolver while another component is modelled
ResolveIdle ==
    /\ dataMap = <<>>
    /\ foundKeys = <<>>
    /\ resolving = <<>>
    /\ resolved = <<>>

\* the variables of the document extraction while another component is
\* modelled
ExtractIdle ==
    /\ lines = <<>>
    /\ idx = 0
    /\ extracted = <<>>

\* the variables of the analyze handler and of the narrative enrichment
\* while another component is modelled
ServiceIdle ==
    /\ server = <<>>
    /\ requests = <<>>
    /\ analyses = <<>>
    /\ enrichment = <<>>
    /\ header = <<>>

InitCalc ==
    /\ TextIdle
    /\ ResolveIdle
    /\ ExtractIdle
    /\ ServiceIdle
    /\ pc = "input"
    /\ data \in CalcInputs
    /\ normalized = NoRecord
    /\ mismatch = FALSE
    /\ ratios = NoRecord
    /\ evaluated = NoRecord

Normalize ==
    /\ pc = "input"
    /\ normalized' = validateAndNormalizeFinancialData(data)
    /\ mismatch' = BalanceMismatch(data)
    /\ pc' = "normalized"
    /\ UNCHANGED <<data, ratios, evaluated, notCalc>>

ComputeRatios ==
    /\ pc = "normalized"
    /\ ratios' = calculateFinancialRatios(normalized)
    /\ pc' = "ratios"
    /\ UNCHANGED <<data, normalized, mismatch, evaluated, notCalc>>

Assess ==
    /\ pc = "ratios"
    /\ evaluated' = evaluateRatios(ratios)
    /\ pc' = "assessed"
    /\ UNCHANGED <<data, normalized, mismatch, ratios, notCalc>>

NextCalc == Normalize \/ ComputeRatios \/ Assess

SpecCalc == InitCalc /\ [][NextCalc]_vars

(***************************************************************************)
(* The string functions applied to one string: parseNumericValue(inputStr),     *)
(* normalizeKey(inputStr) and normalizeKey of that result.                      *)
(***************************************************************************)
MaxStrLen == 4

RECURSIVE StringsUpTo(_, _)
StringsUpTo(alphabet, n) ==
    IF n = 0 THEN {""}
    ELSE LET shorter == StringsUpTo(alphabet, n - 1)
         IN  shorter \cup {t \o c : t \in shorter, c \in alphabet}

TokenAlphabet == {"0", "1", "(", ")", "-", ",", ".", " ", "_", "a"}

KeyAlphabet == {"A", "b", "1", " ", "#", "-", "@"}

\* the tokens and labels the specification and the source comments name
ExampleStrings ==
    { "(123)", "1 234", "(1 234)", "(1_234)", "1~234", "1,234", "-500", "-0",
      "0", "abc", "(-5)", "1,234.50", " (1 234) ", "+500", "- 500",
      "Zapasy", "Denejnye sredstva", "II. Oborotnye aktivy",
      "Itogo po razdelu II", "  Kapital  i  rezervy: ", "BALANS (aktiv)",
      "Zapasy - vsego" }

StrInputs ==
    StringsUpTo(TokenAlphabet, MaxStrLen) \cup StringsUpTo(KeyAlphabet, MaxStrLen)
        \cup ExampleStrings

InitText ==
    /\ pc = "input"
    /\ inputStr \in StrInputs
    /\ parsedValue = Null
    /\ normKey = ""
    /\ normKey2 = ""
    /\ CalcIdle
    /\ ResolveIdle
    /\ ExtractIdle
    /\ ServiceIdle

ParseNumeric ==
    /\ pc = "input"
    /\ parsedValue' = parseNumericValue(inputStr)
    /\ pc' = "parsed"
    /\ UNCHANGED <<inputStr, normKey, normKey2, notText>>

NormalizeKey ==
    /\ pc = "parsed"
    /\ normKey' = normalizeKey(inputStr)
    /\ pc' = "key"
    /\ UNCHANGED <<inputStr, parsedValue, normKey2, notText>>

NormalizeAgain ==
    /\ pc = "key"
    /\ normKey2' = normalizeKey(normKey)
    /\ pc' = "key2"
    /\ UNCHANGED <<inputStr, parsedValue, normKey, notText>>

NextText == ParseNumeric \/ NormalizeKey \/ NormalizeAgain

SpecText == InitText /\ [][NextText]_vars

(***************************************************************************)
(* One findValue call of either resolver on a filled map.                  *)
(***************************************************************************)
MaxMapKeys == 2

MaxExtraFound == 15

\* normalized labels as documents and sheets carry them; several hold the
\* words of a synonym without being one
RawKeyPool ==
    << "balans", "aktivy", "oborotnye aktivy vsego", "vneoborotnye aktivy",
       "za$my i kredity bankov", "kapital", "ustavny$ kapital", "zapasy" >>

\* the value filed under a pool key: distinct keys carry distinct values
PoolValue(n) == Rat(n * 1000, 1)

\* the sequences of at most n distinct pool positions
RECURSIVE DistinctSeqs(_)
DistinctSeqs(n) ==
    IF n = 0 THEN {<<>>}
    ELSE LET shorter == DistinctSeqs(n - 1)
         IN  shorter \cup
             UNION { {Append(q, k) : k \in 1..Len(RawKeyPool) \ {q[j] : j \in 1..Len(q)}} :
                     q \in {r \in shorter : Len(r) = n - 1} }

MapOf(q) == [j \in 1..Len(q) |-> [key |-> RawKeyPool[q[j]], value |-> PoolValue(q[j])]]

\* the labels pushed for the entries, then extra pushes of the first label
\* (a label that occurs again overwrites its entry and is pushed again)
LabelsOf(q, extra) ==
    [j \in 1..(Len(q) + extra) |->
        IF j <= Len(q) THEN RawKeyPool[q[j]] ELSE RawKeyPool[q[1]]]

InitResolve ==
    /\ pc = "filled"
    /\ \E q \in DistinctSeqs(MaxMapKeys) :
          /\ dataMap = MapOf(q)
          /\ \E extra \in 0..MaxExtraFound :
                /\ (q = <<>> => extra = 0)
                /\ foundKeys = LabelsOf(q, extra)
    /\ resolving = <<>>
    /\ resolved = <<>>
    /\ CalcIdle
    /\ TextIdle
    /\ ExtractIdle
    /\ ServiceIdle

ResolveDocument ==
    /\ pc = "filled"
    /\ \E f \in 1..Len(DocumentFields) :
          /\ resolving' = [resolver |-> "document", field |-> DocumentFields[f]]
          /\ resolved' = findValue(dataMap, foundKeys,
                                    DocumentFields[f].possibleKeys,
                                    DocumentFields[f].optional)
    /\ pc' = "resolved"
    /\ UNCHANGED <<dataMap, foundKeys, notResolve>>

ResolveSpreadsheet ==
    /\ pc = "filled"
    /\ \E f \in 1..Len(SpreadsheetFields) :
          /\ resolving' = [resolver |-> "spreadsheet", field |-> SpreadsheetFields[f]]
          /\ resolved' = findValueExcel(dataMap, foundKeys,
                                         SpreadsheetFields[f].possibleKeys,
                                         SpreadsheetFields[f].optional)
    /\ pc' = "resolved"
    /\ UNCHANGED <<dataMap, foundKeys, notResolve>>

\* the whole record mapped from the filled map by the document parser
MapDocument ==
    /\ pc = "filled"
    /\ resolving' = [resolver |-> "document", field |-> "FinancialData"]
    /\ resolved' = mapFields(dataMap, foundKeys)
    /\ pc' = "mapped"
    /\ UNCHANGED <<dataMap, foundKeys, notResolve>>

\* the whole record mapped from the filled map by parseExcelFile
MapSpreadsheet ==
    /\ pc = "filled"
    /\ resolving' = [resolver |-> "spreadsheet", field |-> "FinancialData"]
    /\ resolved' = mapFieldsExcel(dataMap, foundKeys)
    /\ pc' = "mapped"
    /\ UNCHANGED <<dataMap, foundKeys, notResolve>>

NextResolve ==
    ResolveDocument \/ ResolveSpreadsheet \/ MapDocument \/ MapSpreadsheet

SpecResolve == InitResolve /\ [][NextResolve]_vars

(***************************************************************************)
(* parseFinancialDataFromText on one document: the three strategy loops    *)
(* line by line, then the mapping of the raw map to FinancialData.         *)
(***************************************************************************)
MaxBlocks == 2

\* a balance sheet laid out as label, code and value on separate lines
MultiLineSheet ==
    << "Zapasy", "1210", "35000",
       "Debitorskaw zadoljennost'", "1230", "50000",
       "Finansovye vlojeniw", "1240", "20000",
       "Denejnye sredstva", "1250", "45000",
       "Itogo po razdelu II", "1200", "150000",
       "BALANS", "1600", "300000",
       "Itogo po razdelu III", "1300", "180000",
       "Itogo po razdelu IV", "1400", "60000",
       "Zaemnye sredstva", "1510", "15000",
       "Itogo po razdelu V", "1500", "60000",
       "Obwzatel'stva vsego", "1450", "120000" >>

\* the same balance sheet with label, code and value on one line
SingleLineSheet ==
    << "Zapasy 1210 35000",
       "Debitorskaw zadoljennost' 1230 50000",
       "Finansovye vlojeniw 1240 20000",
       "Denejnye sredstva 1250 45000",
       "Itogo po razdelu II 1200 150000",
       "BALANS 1600 300000",
       "Itogo po razdelu III 1300 180000",
       "Itogo po razdelu IV 1400 60000",
       "Zaemnye sredstva 1510 15000",
       "Itogo po razdelu V 1500 60000",
       "Obwzatel'stva vsego 1450 120000" >>

Sheets == {<<>>, MultiLineSheet, SingleLineSheet}

\* label and code of the rows of SingleLineSheet, with the required field
\* each row resolves to
SheetRows ==
    << <<"Zapasy", "1210", "inventory">>,
       <<"Debitorskaw zadoljennost'", "1230", "accountsReceivable">>,
       <<"Finansovye vlojeniw", "1240", "shortTermInvestments">>,
       <<"Denejnye sredstva", "1250", "cashAndEquivalents">>,
       <<"Itogo po razdelu II", "1200", "currentAssets">>,
       <<"BALANS", "1600", "totalAssets">>,
       <<"Itogo po razdelu III", "1300", "equity">>,
       <<"Itogo po razdelu IV", "1400", "longTermDebt">>,
       <<"Zaemnye sredstva", "1510", "shortTermDebt">>,
       <<"Itogo po razdelu V", "1500", "currentLiabilities">>,
       <<"Obwzatel'stva vsego", "1450", "totalLiabilities">> >>

SheetAmounts ==
    << "35000", "50000", "20000", "45000", "150000", "300000", "180000",
       "60000", "15000", "60000", "120000" >>

\* the single-line sheet with the given amount tokens
AmountSheet(amounts) ==
    [r \in 1..Len(SheetRows) |->
        SheetRows[r][1] \o " " \o SheetRows[r][2] \o " " \o amounts[r]]

\* the sheet with one amount zero or negative, and with every amount zero
\* but those of the rows left out
ZeroSheets ==
    { AmountSheet([SheetAmounts EXCEPT ![r] = token]) :
        r \in 1..Len(SheetRows), token \in {"0", "(500)"} }
    \cup
    { AmountSheet([r \in 1..Len(SheetRows) |->
                      IF r \in kept THEN SheetAmounts[r] ELSE "0"]) :
        kept \in {{}, {6, 7}, {5, 6, 7}} }

\* code and value of the rows of a sheet whose labels were lost
CodeRows ==
    << <<"1200", "150000">>, <<"1250", "45000">>, <<"1240", "20000">>,
       <<"1230", "50000">>, <<"1210", "35000">>, <<"1600", "300000">>,
       <<"1500", "60000">>, <<"1510", "15000">>, <<"1420", "120000">>,
       <<"1300", "180000">>, <<"1400", "60000">> >>

\* the rows as the text of a broken layout gives them: a rule where the
\* label was, then the code line and the value line
CodeSheet(rows) ==
    [n \in 1..(3 * Len(rows)) |->
        IF n % 3 = 1 THEN "---" ELSE rows[(n + 2) \div 3][(n - 1) % 3]]

\* the whole sheet, and the sheet without the row of code 1230
CodeSheets ==
    { CodeSheet(CodeRows),
      CodeSheet(SelectSeq(CodeRows, LAMBDA row : row[1] # "1230")) }

\* runs of lines found around and inside such sheets
Blocks ==
    { <<"Denejnye sredstva", "1250", "45000">>,
      <<"Denejnye sredstva", "1250", "(1 200)">>,
      <<"Zapasy 35 000">>,
      <<"Zapasy 1210 35 000", "Zapasy 1210 - 500">>,
      <<"---", "1210", "500">>,
      <<"1210", "99">>,
      <<"1250", "1210", "7">>,
      <<"BALANS", "1600", "abc">> }

RECURSIVE BlockRuns(_)
BlockRuns(n) ==
    IF n = 0 THEN {<<>>}
    ELSE LET shorter == BlockRuns(n - 1)
         IN  shorter \cup {r \o b : r \in shorter, b \in Blocks}

\* a sheet with runs of blocks before and after it, MaxBlocks blocks at most
Documents ==
    { d \in UNION { {before \o sheet \o after :
                        sheet \in Sheets,
                        before \in BlockRuns(n),
                        after \in BlockRuns(MaxBlocks - n)} :
                    n \in 0..MaxBlocks } :
        d # <<>> }
    \cup ZeroSheets \cup CodeSheets

InitExtract ==
    /\ pc = "multiLine"
    /\ lines \in Documents
    /\ idx = 1
    /\ dataMap = <<>>
    /\ foundKeys = <<>>
    /\ extracted = <<>>
    /\ resolving = <<>>
    /\ resolved = <<>>
    /\ CalcIdle
    /\ TextIdle
    /\ ServiceIdle

\* dataMap.set(key, value); foundKeys.push(label) for the entry, if any
Record(entry) ==
    /\ dataMap' = IF entry = <<>> THEN dataMap
                  ELSE MapSet(dataMap, entry[1].key, entry[1].value)
    /\ foundKeys' = IF entry = <<>> THEN foundKeys
                    ELSE Append(foundKeys, entry[1].label)

\* the loop moves to the next line, or ends and the function goes on
Advance(after) ==
    IF idx < Len(lines)
    THEN pc' = pc /\ idx' = idx + 1
    ELSE pc' = after /\ idx' = 1

StrategyA ==
    /\ pc = "multiLine"
    /\ Record(multiLineField(lines, idx))
    /\ Advance(IF singleLineApplies(foundKeys') THEN "singleLine" ELSE "codes")
    /\ UNCHANGED <<lines, extracted, resolving, resolved, notExtract>>

StrategyB ==
    /\ pc = "singleLine"
    /\ Record(singleLineField(lines, idx))
    /\ Advance("codes")
    /\ UNCHANGED <<lines, extracted, resolving, resolved, notExtract>>

StrategyC ==
    /\ pc = "codes"
    /\ Record(codeField(lines, idx, dataMap))
    /\ Advance("fields")
    /\ UNCHANGED <<lines, extracted, resolving, resolved, notExtract>>

MapFields ==
    /\ pc = "fields"
    /\ extracted' = mapFields(dataMap, foundKeys)
    /\ pc' = "done"
    /\ UNCHANGED <<lines, idx, dataMap, foundKeys, resolving, resolved, notExtract>>

NextExtract == StrategyA \/ StrategyB \/ StrategyC \/ MapFields

SpecExtract == InitExtract /\ [][NextExtract]_vars

(***************************************************************************)
(* parseFinancialDataFromText as the analyze handler calls it: one call,   *)
(* the three strategy loops run to their end, then the mapping.            *)
(***************************************************************************)
\* dataMap.set(key, value); foundKeys.push(label) on the locals of the call
Recorded(st, entry) ==
    [ dataMap |-> MapSet(st.dataMap, entry[1].key, entry[1].value),
      foundKeys |-> Append(st.foundKeys, entry[1].label) ]

RECURSIVE multiLineLoop(_, _, _)
multiLineLoop(ls, i, st) ==
    IF i > Len(ls) THEN st
    ELSE LET entry == multiLineField(ls, i)
         IN  IF entry = <<>> THEN multiLineLoop(ls, i + 1, st)
             ELSE multiLineLoop(ls, i + 1, Recorded(st, entry))

RECURSIVE singleLineLoop(_, _, _)
singleLineLoop(ls, i, st) ==
    IF i > Len(ls) THEN st
    ELSE LET entry == singleLineField(ls, i)
         IN  IF entry = <<>> THEN singleLineLoop(ls, i + 1, st)
             ELSE singleLineLoop(ls, i + 1, Recorded(st, entry))

RECURSIVE codeLoop(_, _, _)
codeLoop(ls, i, st) ==
    IF i > Len(ls) THEN st
    ELSE LET entry == codeField(ls, i, st.dataMap)
         IN  IF entry = <<>> THEN codeLoop(ls, i + 1, st)
             ELSE codeLoop(ls, i + 1, Recorded(st, entry))

\* the strategies in turn, each on the map and the labels the one before
\* left, then the mapping
parseFinancialDataFromText(ls) ==
    LET afterMultiLine ==
            {multiLineLoop(ls, 1, [dataMap |-> <<>>, foundKeys |-> <<>>])}
        afterSingleLine ==
            { IF singleLineApplies(a.foundKeys)
              THEN singleLineLoop(ls, 1, a) ELSE a : a \in afterMultiLine }
        afterCodes == {codeLoop(ls, 1, b) : b \in afterSingleLine}
        returned == {mapFields(c.dataMap, c.foundKeys) : c \in afterCodes}
    IN  CHOOSE financialData \in returned : TRUE

\* a whole amount of the parsed record as the calculator takes it
AsAmount(x) == x.num \div x.den

\* the fields of FinancialData the calculator reads; the optional ones hold
\* a number whenever the record comes from the extraction
CalculatorFields(d) ==
    [ currentAssets |-> AsAmount(d.currentAssets),
      cashAndEquivalents |-> AsAmount(d.cashAndEquivalents),
      shortTermInvestments |-> AsAmount(d.shortTermInvestments),
      accountsReceivable |-> AsAmount(d.accountsReceivable),
      inventory |-> AsAmount(d.inventory),
      totalAssets |-> AsAmount(d.totalAssets),
      currentLiabilities |-> AsAmount(d.currentLiabilities),
      shortTermDebt |-> AsAmount(d.shortTermDebt),
      totalLiabilities |-> AsAmount(d.totalLiabilities),
      equity |-> AsAmount(d.equity),
      longTermDebt |-> AsAmount(d.longTermDebt),
      revenue |-> Def(AsAmount(d.revenue)),
      netIncome |-> Def(AsAmount(d.netIncome)),
      operatingIncome |-> Def(AsAmount(d.operatingIncome)),
      grossProfit |-> Def(AsAmount(d.grossProfit)) ]

(***************************************************************************)
(* server/openai.ts: the narrative enrichment                              *)
(***************************************************************************)
\* x < y
Lt(x, y) == Ge(y, x) /\ ~Ge(x, y)

\* the sector name used when the service gives none
sectorPlaceholder(okved) == "Otrasl' po OKV&D " \o okved

\* what awaiting the sector request gives: a reply with content, a reply
\* without content, a rejected request
LookupReplies == {"content", "empty", "error"}

\* the race of the sector request against the 10 s timer may also be lost
LookupOutcomes == LookupReplies \cup {"timeout"}

\* getOkvedSectorName: the content of the reply, the placeholder without a
\* key, on an empty reply and on a rejected request
getOkvedSectorName(configured, okvedCode, reply) ==
    IF ~configured THEN sectorPlaceholder(okvedCode)
    ELSE IF reply = "content" THEN "OKV&D " \o okvedCode \o " - Razrabotka PO"
    ELSE sectorPlaceholder(okvedCode)

\* the inner try of generateFinancialAnalysis: the lookup raced against the
\* timer, the placeholder when the race rejects
lookupSectorName(configured, okvedCode, outcome) ==
    IF outcome = "timeout" THEN sectorPlaceholder(okvedCode)
    ELSE getOkvedSectorName(configured, okvedCode, outcome)

determineRiskLevel(r) ==
    LET liquidity == IF Ge(r.currentRatio, Rat(2, 1)) THEN 2
                     ELSE IF Ge(r.currentRatio, Rat(3, 2)) THEN 1
                     ELSE IF Lt(r.currentRatio, Rat(1, 1)) THEN -2 ELSE 0
        autonomy == IF Ge(r.equityRatio, Rat(3, 5)) THEN 2
                    ELSE IF Ge(r.equityRatio, Rat(1, 2)) THEN 1
                    ELSE IF Lt(r.equityRatio, Rat(3, 10)) THEN -2 ELSE 0
        debt == IF Lt(r.debtRatio, Rat(3, 10)) THEN 1
                ELSE IF Lt(Rat(3, 5), r.debtRatio) THEN -1 ELSE 0
        capital == IF r.workingCapital > 0 THEN 1 ELSE -2
        score == liquidity + autonomy + debt + capital
    IN  IF score >= 4 THEN "low" ELSE IF score <= 0 THEN "high" ELSE "medium"

\* the decision the code derives from a risk level
creditDecisionFor(riskLevel) ==
    IF riskLevel = "low" THEN "Odobrit'"
    ELSE IF riskLevel = "high" THEN "Otklonit'"
    ELSE "Uslovno odobrit'"

\* a value the function returns, and an error it throws
Returned(report) == [kind |-> "report", report |-> report]

Thrown(error) == [kind |-> "thrown", error |-> error]

\* the parts of the BankCreditReport that depend on the path taken;
\* producedBy names the return statement the report comes from
generateFallbackAnalysis(d, r, okved) ==
    [ producedBy |-> "fallback",
      description |->
          IF IsDefined(okved)
          THEN "Kompaniw osuxestvlwet dewtel'nost' v sootvetstvii s OKV&D "
                   \o Val(okved)
          ELSE "Informaciw ob otrasli ne ukazana v dokumentah",
      creditDecision |-> creditDecisionFor(determineRiskLevel(r)),
      riskLevel |-> determineRiskLevel(r) ]

\* the object literal validated of generateFinancialAnalysis on the parsed
\* reply: each field of the reply when it has the right type, else a default
validatedReport(result, r, sectorName) ==
    [ producedBy |-> "validated",
      description |->
          IF IsDefined(result.description) THEN Val(result.description)
          ELSE IF sectorName # "" THEN sectorName ELSE "Otrasl' ne ukazana",
      creditDecision |->
          IF IsDefined(result.creditDecision) THEN Val(result.creditDecision)
          ELSE creditDecisionFor(determineRiskLevel(r)),
      riskLevel |->
          IF result.riskLevel \in {<<"low">>, <<"medium">>, <<"high">>}
          THEN Val(result.riskLevel)
          ELSE determineRiskLevel(r) ]

\* the replies to the analysis request: the race lost to the 30 s timer, a
\* rejected request, no content, content that is not JSON, the JSON null,
\* and JSON objects with and without the fields of the report
JsonObjects ==
    { [description |-> dsc, creditDecision |-> dec, riskLevel |-> lvl] :
        dsc \in {Undefined, Def("IT-otrasl'")},
        dec \in {Undefined, Def("Odobrit' s obespeqeniem")},
        lvl \in {Undefined, Def("low"), Def("high"), Def("unknown")} }

AnalysisReplies ==
    { [kind |-> k] : k \in {"timeout", "error", "empty", "unparsable", "null"} }
    \cup { [kind |-> "object", result |-> o] : o \in JsonObjects }

\* the try block from the analysis request on: what it returns or throws
analysisResponse(reply, d, r, okved, sectorName) ==
    IF reply.kind = "timeout" THEN Thrown("OpenAI API timeout after 30 seconds")
    ELSE IF reply.kind = "error" THEN Thrown("request failed")
    ELSE IF reply.kind = "empty"
    THEN Returned(generateFallbackAnalysis(d, r, okved))
    ELSE IF reply.kind = "unparsable" THEN Thrown("SyntaxError")
    ELSE IF reply.kind = "null" THEN Thrown("TypeError")
    ELSE Returned(validatedReport(reply.result, r, sectorName))

\* the error thrown on to the caller
catchAnalysisError_rethrow(outcome, d, r, okved) == outcome

\* the catch block: the fallback analysis instead of the error
catchAnalysisError(outcome, d, r, okved) ==
    IF outcome.kind = "thrown"
    THEN Returned(generateFallbackAnalysis(d, r, okved))
    ELSE outcome

\* generateFinancialAnalysis from its call to its return, given what the
\* awaited requests gave
generateFinancialAnalysis(configured, d, r, okved, lookup, reply) ==
    IF ~configured THEN Returned(generateFallbackAnalysis(d, r, okved))
    ELSE LET sectorName ==
                 IF IsDefined(okved)
                 THEN lookupSectorName(configured, Val(okved), lookup)
                 ELSE "Otrasl' ne ukazana"
         IN  catchAnalysisError(
                 analysisResponse(reply, d, r, okved, sectorName), d, r, okved)

(***************************************************************************)
(* server/document-parser.ts: the header scan of parseFinancialDataFromText *)
(* for the OKVED code and the company name                                 *)
(***************************************************************************)
\* nonEmptyLines.slice(0, 30)
HeaderWindow == 30

\* [:\s]
ColonOrSpace == WhiteSpace \cup {":"}

\* [0-9.]
CodeChars == Digits \cup {"."}

\* ["«»], the characters stripped from a labeled name
QuoteChars == {"\"", "<", ">"}

\* ["«]
OpeningQuotes == {"\"", "<"}

\* ["»]
ClosingQuotes == {"\"", ">"}

\* the last position of the run of characters of the set that starts at
\* position i, and i - 1 when position i holds none
RunOf(s, i, chars) ==
    Min({j \in (i - 1)..Len(s) : j = Len(s) \/ Char(s, j + 1) \notin chars})

\* the same for the characters outside the set
RunOutside(s, i, chars) ==
    Min({j \in (i - 1)..Len(s) : j = Len(s) \/ Char(s, j + 1) \in chars})

\* flag i: a letter of the line matches the lower-case letter of the pattern
\* in either case
SameLetter(c, letter) ==
    c = letter \/ (c \in UpperLetters /\ LowerOf[c] = letter)

\* the word stands at position p of the line, case ignored
WordAt(s, p, word) ==
    /\ p + Len(word) - 1 <= Len(s)
    /\ \A k \in 1..Len(word) : SameLetter(Char(s, p + k - 1), Char(word, k))

\* the ways \s*\d*[:\s]+ can be followed by a digit after a marker that ends
\* at position m: \s* ends at a, \d* at b, and the run of [:\s] after b is
\* not empty and is followed by a digit
OkvedSplits(s, m) ==
    {ab \in (m..Len(s)) \X (m..Len(s)) :
        /\ ab[1] <= RunOf(s, m + 1, WhiteSpace)
        /\ ab[1] <= ab[2]
        /\ ab[2] <= RunOf(s, ab[1] + 1, Digits)
        /\ RunOf(s, ab[2] + 1, ColonOrSpace) > ab[2]
        /\ RunOf(s, ab[2] + 1, ColonOrSpace) < Len(s)
        /\ Char(s, RunOf(s, ab[2] + 1, ColonOrSpace) + 1) \in Digits}

\* line.match(/okved\s*\d*[:\s]+([0-9][0-9.]*)/i): group 1, <<>> for no
\* match. The leftmost marker that can be completed is taken; \s* and then
\* \d* take the longest runs that let the rest match.
okvedMatch(s) ==
    LET markers == {p \in 1..Len(s) :
                       WordAt(s, p, "okv&d") /\ OkvedSplits(s, p + 4) # {}}
    IN  IF markers = {} THEN <<>>
        ELSE LET m == Min(markers) + 4
                 a == Max({ab[1] : ab \in OkvedSplits(s, m)})
                 b == Max({ab[2] : ab \in {x \in OkvedSplits(s, m) : x[1] = a}})
                 c == RunOf(s, b + 1, ColonOrSpace)
             IN  <<SubSeq(s, c + 1, RunOf(s, c + 1, CodeChars))>>

\* organizaciya | naimenovanie | kompaniya | predpriyatie
LabelWords == <<"organizaciw", "naimenovanie", "kompaniw", "predpriwtie">>

\* (.+) after the label that ends at position e: the rest of the line after
\* the run of [:\s], or the last character of that run when the run ends
\* the line and has two characters at least; <<>> when neither is there
LabelledText(s, e) ==
    LET c == RunOf(s, e + 1, ColonOrSpace)
    IN  IF c > e /\ c < Len(s) THEN <<From(s, c + 1)>>
        ELSE IF c > e + 1 THEN <<Char(s, Len(s))>>
        ELSE <<>>

\* line.match(/(?:organizaciya|naimenovanie|kompaniya|predpriyatie)[:\s]+(.+)/i):
\* group 1, <<>> for no match
companyMatch(s) ==
    LET hits == {pw \in (1..Len(s)) \X (1..Len(LabelWords)) :
                    /\ WordAt(s, pw[1], LabelWords[pw[2]])
                    /\ LabelledText(s, pw[1] + Len(LabelWords[pw[2]]) - 1) # <<>>}
    IN  IF hits = {} THEN <<>>
        ELSE LET p == Min({pw[1] : pw \in hits})
                 w == Min({pw[2] : pw \in {x \in hits : x[1] = p}})
             IN  LabelledText(s, p + Len(LabelWords[w]) - 1)

\* line.match(/["«]([^"»]+)["»]/): group 1, <<>> for no match
quotedMatch(s) ==
    LET opens == {p \in 1..Len(s) :
                     /\ Char(s, p) \in OpeningQuotes
                     /\ RunOutside(s, p + 1, ClosingQuotes) > p
                     /\ RunOutside(s, p + 1, ClosingQuotes) < Len(s)}
    IN  IF opens = {} THEN <<>>
        ELSE LET p == Min(opens)
             IN  <<SubSeq(s, p + 1, RunOutside(s, p + 1, ClosingQuotes))>>

\* a string | undefined local is set when it holds a non-empty string
Truthy(o) == IsDefined(o) /\ Val(o) # ""

\* the quoted text taken whatever its length
companyNameIn_anyLength(line) ==
    IF companyMatch(line) # <<>>
    THEN Def(RemoveAll(Trim(companyMatch(line)[1]), QuoteChars))
    ELSE IF Includes(line, "\"") \/ Includes(line, "<")
    THEN IF quotedMatch(line) # <<>>
         THEN Def(Trim(quotedMatch(line)[1]))
         ELSE Undefined
    ELSE Undefined

\* what the line gives for companyName when none is held: the labeled text
\* trimmed and stripped of quotes, else the quoted text of more than 3 and
\* fewer than 100 characters, trimmed; Undefined when it assigns nothing
companyNameIn(line) ==
    IF companyMatch(line) # <<>>
    THEN Def(RemoveAll(Trim(companyMatch(line)[1]), QuoteChars))
    ELSE IF Includes(line, "\"") \/ Includes(line, "<")
    THEN IF /\ quotedMatch(line) # <<>>
            /\ Len(quotedMatch(line)[1]) > 3
            /\ Len(quotedMatch(line)[1]) < 100
         THEN Def(Trim(quotedMatch(line)[1]))
         ELSE Undefined
    ELSE Undefined

\* what the line gives for okved when none is held
okvedIn(line) ==
    IF okvedMatch(line) # <<>> THEN Def(Trim(okvedMatch(line)[1])) ELSE Undefined

\* both locals assigned on every match, found or not
scanHeaderLine_lastWins(line, okved, companyName) ==
    [ okved |-> IF IsDefined(okvedIn(line)) THEN okvedIn(line) ELSE okved,
      companyName |->
          IF IsDefined(companyNameIn(line)) THEN companyNameIn(line)
          ELSE companyName ]

\* the body of the loop over headerLines on one line, given the two locals
scanHeaderLine(line, okved, companyName) ==
    [ okved |->
          IF ~Truthy(okved) /\ IsDefined(okvedIn(line)) THEN okvedIn(line)
          ELSE okved,
      companyName |->
          IF ~Truthy(companyName) /\ IsDefined(companyNameIn(line))
          THEN companyNameIn(line)
          ELSE companyName ]

(***************************************************************************)
(* The header scan of one document, line by line.                          *)
(***************************************************************************)
MaxHeaderLines == 31

RECURSIVE Repeat(_, _)
Repeat(c, n) == IF n = 0 THEN "" ELSE c \o Repeat(c, n - 1)

\* a line of the statement that names neither a code nor a company
PlainLine == "Buhgalterski$ balans"

\* lines a header holds: the code with and without a version digit, labeled
\* and quoted names, quoted texts at the limits of the accepted length, a
\* labeled and a quoted name that are empty, a line with both fields, and
\* the heading of the table
HeaderLinePool ==
    { PlainLine,
      "Kod po OKV&D: 46.51",
      "OKV&D 2: 08.1",
      "Organizaciw: OOO \"Vektor\"",
      "Naimenovanie pokazatelw",
      "ZAO <Luqi> za 2023 god",
      "ZAO <Luq>",
      "\"" \o Repeat("v", 99) \o "\"",
      "\"" \o Repeat("v", 100) \o "\"",
      "Organizaciw: \"\"",
      "\"    \"",
      "Predpriwtie OOO Sever, OKV&D 46.51" }

\* where the two lines that are not plain may stand: at the top, on the last
\* line of the window, on the line after it and at the end of the document
HeaderPositions == {1, 2, HeaderWindow, HeaderWindow + 1, MaxHeaderLines}

\* documents of MaxHeaderLines lines, plain but for two, and of two lines
HeaderDocuments ==
    { [n \in 1..MaxHeaderLines |->
          IF n = p THEN x ELSE IF n = q THEN y ELSE PlainLine] :
        x \in HeaderLinePool, y \in HeaderLinePool,
        p \in HeaderPositions, q \in HeaderPositions }
    \cup { <<x, y>> : x \in HeaderLinePool, y \in HeaderLinePool }

InitHeader ==
    /\ pc = "header"
    /\ \E nonEmptyLines \in HeaderDocuments :
          header = [ lines |-> nonEmptyLines, i |-> 1, pc |-> "scan",
                     okved |-> Undefined, companyName |-> Undefined ]
    /\ CalcIdle
    /\ TextIdle
    /\ ResolveIdle
    /\ ExtractIdle
    /\ server = <<>>
    /\ requests = <<>>
    /\ analyses = <<>>
    /\ enrichment = <<>>

\* one turn of for (const line of headerLines): the two searches, then the
\* break when both are found, the end of the loop after the last line
ScanHeaderLine ==
    /\ header.pc = "scan"
    /\ LET headerLines == Slice(header.lines, HeaderWindow)
           found == scanHeaderLine(headerLines[header.i], header.okved,
                                   header.companyName)
       IN  header' =
             [header EXCEPT
                !.okved = found.okved,
                !.companyName = found.companyName,
                !.pc = IF (Truthy(found.okved) /\ Truthy(found.companyName))
                          \/ header.i = Len(headerLines)
                       THEN "scanned" ELSE "scan",
                !.i = IF (Truthy(found.okved) /\ Truthy(found.companyName))
                         \/ header.i = Len(headerLines)
                      THEN header.i ELSE header.i + 1]
    /\ UNCHANGED <<pc, calcVars, textVars, resolveVars, extractVars,
                   analyzeVars, enrichVars>>

\* okved and companyName put into the financialData literal
AssignHeader ==
    /\ header.pc = "scanned"
    /\ header' = [header EXCEPT !.pc = "assigned"]
    /\ UNCHANGED <<pc, calcVars, textVars, resolveVars, extractVars,
                   analyzeVars, enrichVars>>

NextHeader == ScanHeaderLine \/ AssignHeader

SpecHeader == InitHeader /\ [][NextHeader]_vars

(***************************************************************************)
(* One call of generateFinancialAnalysis, from await to await.             *)
(***************************************************************************)
\* records of low, medium and high risk
EnrichRecords ==
    { [BaseRecord EXCEPT !.currentAssets = ca, !.equity = eq] :
        ca \in Amounts, eq \in Amounts }

OkvedCodes == {Undefined, Def("62.01")}

InitEnrich ==
    /\ pc = "enrich"
    /\ CalcIdle
    /\ TextIdle
    /\ ResolveIdle
    /\ ExtractIdle
    /\ header = <<>>
    /\ server = <<>>
    /\ requests = <<>>
    /\ analyses = <<>>
    /\ \E d \in EnrichRecords, okved \in OkvedCodes, configured \in BOOLEAN :
          enrichment =
              [ pc |-> "called", configured |-> configured,
                data |-> validateAndNormalizeFinancialData(d),
                ratios |-> calculateFinancialRatios(
                               validateAndNormalizeFinancialData(d)),
                okved |-> okved, sectorName |-> "", lookup |-> "",
                reply |-> <<>>, result |-> <<>> ]

\* from the call to the first await, or to the return without a key
CallEnrichment ==
    /\ enrichment # <<>>
    /\ enrichment.pc = "called"
    /\ enrichment' =
         IF ~enrichment.configured
         THEN [enrichment EXCEPT
                 !.pc = "returned",
                 !.result = Returned(generateFallbackAnalysis(
                     enrichment.data, enrichment.ratios, enrichment.okved))]
         ELSE IF IsDefined(enrichment.okved)
         THEN [enrichment EXCEPT !.pc = "sectorLookup"]
         ELSE [enrichment EXCEPT !.pc = "analysisRequest",
                                 !.sectorName = "Otrasl' ne ukazana"]
    /\ UNCHANGED <<pc, calcVars, textVars, resolveVars, extractVars, analyzeVars,
                   headerVars>>

\* the race of getOkvedSectorName against the 10 s timer settles
SectorLookup ==
    /\ enrichment # <<>>
    /\ enrichment.pc = "sectorLookup"
    /\ \E outcome \in LookupOutcomes :
          enrichment' =
              [enrichment EXCEPT
                 !.pc = "analysisRequest",
                 !.lookup = outcome,
                 !.sectorName = lookupSectorName(enrichment.configured,
                                                 Val(enrichment.okved), outcome)]
    /\ UNCHANGED <<pc, calcVars, textVars, resolveVars, extractVars, analyzeVars,
                   headerVars>>

\* the race of the analysis request against the 30 s timer settles; the
\* rest of the try block and the catch block
AnalysisRequest ==
    /\ enrichment # <<>>
    /\ enrichment.pc = "analysisRequest"
    /\ \E reply \in AnalysisReplies :
          enrichment' =
              [enrichment EXCEPT
                 !.pc = "returned",
                 !.reply = reply,
                 !.result = catchAnalysisError(
                     analysisResponse(reply, enrichment.data, enrichment.ratios,
                                      enrichment.okved, enrichment.sectorName),
                     enrichment.data, enrichment.ratios, enrichment.okved)]
    /\ UNCHANGED <<pc, calcVars, textVars, resolveVars, extractVars, analyzeVars,
                   headerVars>>

NextEnrich == CallEnrichment \/ SectorLookup \/ AnalysisRequest

SpecEnrich == InitEnrich /\ [][NextEnrich]_vars

\* every await of the call settles: the requests are raced against timers
FairEnrich ==
    SpecEnrich /\ WF_vars(CallEnrichment) /\ WF_vars(SectorLookup)
        /\ WF_vars(AnalysisRequest)

(***************************************************************************)
(* server/storage.ts and server/routes.ts: POST /api/analyze. The source   *)
(* holds three versions of the handler; the server runs one of them. Two   *)
(* requests are in flight; a request runs from one await to the next       *)
(* without interruption and the other request may run in between. A        *)
(* request starts at its await of parseDocumentFile; parsing is what that  *)
(* promise settles with, a function of the document alone.                 *)
(***************************************************************************)
\* the map with the analysis replacing all it held
saveAnalysis_singleSlot(stored, id, analysis) ==
    <<[key |-> id, value |-> analysis]>>

\* this.analyses.set(id, analysis)
saveAnalysis(stored, id, analysis) == MapSet(stored, id, analysis)

\* the balance sheet of the sample template followed by lines of the
\* income statement
IncomeLines ==
    << "Vyruqka 2110 500000",
       "Valovaw pribyl' 2100 150000",
       "Pribyl' ot prodaj 2200 80000",
       "Qistaw pribyl' 2400 45000" >>

\* documents with and without an income statement, one whose parsed total
\* liabilities are not the sum of its sections IV and V, one without its
\* balance total and one whose section II is zero
AnalyzedDocuments ==
    { SingleLineSheet,
      SingleLineSheet \o IncomeLines,
      SingleLineSheet \o <<IncomeLines[1]>>,
      SingleLineSheet \o <<IncomeLines[4]>>,
      AmountSheet([SheetAmounts EXCEPT ![11] = "90000"]),
      AmountSheet([SheetAmounts EXCEPT ![11] = "90000"]) \o IncomeLines,
      SubSeq(SingleLineSheet, 1, 5) \o SubSeq(SingleLineSheet, 7, 11),
      AmountSheet([SheetAmounts EXCEPT ![5] = "0"]) }

\* parseDocumentFile on each of the documents: the text of the buffer
\* handed to parseFinancialDataFromText
parsedDocuments ==
    {<<d, parseFinancialDataFromText(d)>> : d \in AnalyzedDocuments}

Handlers == {"initial", "normalizing", "periods"}

Requests == {"first", "second"}

\* the identifiers randomUUID may give
UUIDs == {"uuid-a", "uuid-b"}

\* what awaiting generateFinancialAnalysis gives a request
EnrichmentReplies ==
    { [kind |-> "error"],
      [kind |-> "object",
       result |-> [description |-> Def("IT-otrasl'"),
                   creditDecision |-> Undefined,
                   riskLevel |-> Def("low")]] }

InitAnalyze ==
    /\ pc = "serve"
    /\ CalcIdle
    /\ TextIdle
    /\ ResolveIdle
    /\ ExtractIdle
    /\ header = <<>>
    /\ enrichment = <<>>
    /\ server \in [handler : Handlers, configured : BOOLEAN]
    /\ analyses = <<>>
    /\ \E parses \in {parsedDocuments} :
       \E documents \in [Requests -> AnalyzedDocuments] :
          requests =
              [r \in Requests |->
                  [ pc |-> "parsing", document |-> documents[r],
                    parsing |-> (CHOOSE p \in parses :
                                    p[1] = documents[r])[2],
                    steps |-> <<>>, financialData |-> NoRecord,
                    normalizedData |-> NoRecord, ratios |-> NoRecord,
                    evaluatedRatios |-> NoRecord, reply |-> <<>>,
                    result |-> NoRecord, id |-> "", response |-> <<>> ]]

\* the record the handler hands to the ratio engine and to the enrichment
analysedData(handler, financialData) ==
    IF handler = "initial" THEN financialData
    ELSE validateAndNormalizeFinancialData(financialData)

\* the steps of the handler between the parse and the enrichment
stepsAfterParse(handler) ==
    IF handler = "initial" THEN <<"compute_ratios", "assess">>
    ELSE <<"normalize", "compute_ratios", "assess">>

\* the periods of the response: a document carries no yearlyData, so the
\* single period of the current year
periodsOf(normalizedData) ==
    LET validatedYearData == validateAndNormalizeFinancialData(normalizedData)
    IN  << [ data |-> validatedYearData,
             ratios |-> evaluateRatios(
                            calculateFinancialRatios(validatedYearData)) ] >>

\* the object literal analysisResult
analysisResultOf(handler, record, evaluatedRatios, aiAnalysis) ==
    [ data |-> record, ratios |-> evaluatedRatios,
      periods |-> IF handler = "periods" THEN periodsOf(record) ELSE <<>>,
      aiAnalysis |-> aiAnalysis ]

\* the catch block of the handler: res.status(400).json({ error })
errorResponse(error) == [status |-> 400, error |-> error]

\* parseDocumentFile settles; on a record the handler runs on to the await
\* of generateFinancialAnalysis, on an error to its catch block
Parsed(r) ==
    /\ requests[r].pc = "parsing"
    /\ LET parsed == requests[r].parsing
           financialData == CalculatorFields(parsed.data)
           record == analysedData(server.handler, financialData)
           computed == calculateFinancialRatios(record)
       IN  requests' =
             [requests EXCEPT ![r] =
                IF parsed.kind # "data"
                THEN [@ EXCEPT !.pc = "responded",
                               !.steps = <<"extract">>,
                               !.response = errorResponse(parsed)]
                ELSE [@ EXCEPT !.pc = "enriching",
                               !.steps = <<"extract">>
                                            \o stepsAfterParse(server.handler),
                               !.financialData = financialData,
                               !.normalizedData = record,
                               !.ratios = computed,
                               !.evaluatedRatios = evaluateRatios(computed)]]
    /\ UNCHANGED <<pc, server, analyses, enrichment, header,
                   calcVars, textVars, resolveVars, extractVars>>

\* generateFinancialAnalysis settles; the handler builds analysisResult and
\* calls storage.saveAnalysis, which stores it before the handler awaits
Enriched(r) ==
    /\ requests[r].pc = "enriching"
    /\ \E reply \in EnrichmentReplies,
          id \in UUIDs \ {analyses[j].key : j \in 1..Len(analyses)} :
          LET outcome == generateFinancialAnalysis(
                             server.configured, requests[r].normalizedData,
                             requests[r].ratios, Undefined, "content", reply)
              analysisResult ==
                  analysisResultOf(server.handler, requests[r].normalizedData,
                                   requests[r].evaluatedRatios, outcome.report)
          IN  IF outcome.kind = "thrown"
              THEN /\ requests' =
                        [requests EXCEPT ![r].pc = "responded",
                                         ![r].reply = reply,
                                         ![r].response = errorResponse(outcome)]
                   /\ UNCHANGED analyses
              ELSE /\ requests' =
                        [requests EXCEPT ![r].pc = "saving",
                                         ![r].reply = reply,
                                         ![r].result = analysisResult,
                                         ![r].id = id]
                   /\ analyses' = saveAnalysis(analyses, id, analysisResult)
    /\ UNCHANGED <<pc, server, enrichment, header,
                   calcVars, textVars, resolveVars, extractVars>>

\* storage.saveAnalysis settles: res.json({ success, id, result })
Respond(r) ==
    /\ requests[r].pc = "saving"
    /\ requests' =
         [requests EXCEPT
            ![r].pc = "responded",
            ![r].response = [status |-> 200, id |-> requests[r].id,
                             result |-> requests[r].result]]
    /\ UNCHANGED <<pc, server, analyses, enrichment, header,
                   calcVars, textVars, resolveVars, extractVars>>

NextAnalyze == \E r \in Requests : Parsed(r) \/ Enriched(r) \/ Respond(r)

SpecAnalyze == InitAnalyze /\ [][NextAnalyze]_vars

(***************************************************************************)
(* Claims on the calculator                                                *)
(***************************************************************************)

\* C1: the totalLiabilities returned by validateAndNormalizeFinancialData is
\* the input's longTermDebt + currentLiabilities, whatever totalLiabilities
\* the input carried.
C1_TotalLiabilitiesRecomputed ==
    pc # "input" =>
        normalized.totalLiabilities = data.longTermDebt + data.currentLiabilities

\* a normalized record whose parsedValue totalLiabilities was a different number
C1_Witness ==
    /\ pc = "normalized"
    /\ data.totalLiabilities # data.longTermDebt + data.currentLiabilities
    /\ normalized.totalLiabilities = data.longTermDebt + data.currentLiabilities

\* C2: calculateFinancialRatios yields 0 for currentRatio, quickRatio and
\* cashRatio when currentLiabilities is 0, for equityRatio and debtRatio when
\* totalAssets is 0, for debtToEquityRatio and financialLeverageRatio when
\* equity is 0; no ratio is Infinity or NaN.
C2_ZeroDenominatorGivesZero ==
    pc \in {"ratios", "assessed"} =>
        /\ normalized.currentLiabilities = 0 =>
              /\ ratios.currentRatio = Zero
              /\ ratios.quickRatio = Zero
              /\ ratios.cashRatio = Zero
        /\ normalized.totalAssets = 0 =>
              /\ ratios.equityRatio = Zero
              /\ ratios.debtRatio = Zero
        /\ normalized.equity = 0 =>
              /\ ratios.debtToEquityRatio = Zero
              /\ ratios.financialLeverageRatio = Zero
        /\ \A f \in {"currentRatio", "quickRatio", "cashRatio", "equityRatio",
                      "debtRatio", "debtToEquityRatio", "financialLeverageRatio"} :
              IsFinite(ratios[f])

\* ratios computed from a record with all three denominators 0 and non-zero
\* numerators
C2_Witness ==
    /\ pc = "ratios"
    /\ normalized.currentLiabilities = 0 /\ normalized.currentAssets > 0
    /\ normalized.totalAssets = 0
    /\ normalized.equity = 0 /\ normalized.totalLiabilities > 0
    /\ ratios.currentRatio = Zero /\ ratios.debtToEquityRatio = Zero

\* the status the claim prescribes for the quotient n / d (d > 0) of a
\* non-reverse ratio, by cross-multiplication on the integer amounts
C3_Prescribed(n, d, t) ==
    IF n * t.excellent.den >= t.excellent.num * d THEN "excellent"
    ELSE IF n * t.good.den >= t.good.num * d THEN "good"
    ELSE IF n * t.warning.den >= t.warning.num * d THEN "warning"
    ELSE "critical"

\* C3: evaluateRatios classifies the non-reverse ratios with inclusive >=
\* against the excellent, good and warning thresholds in that order, and
\* currentAssets = 150000 with currentLiabilities = 60000 gives currentRatio
\* 2.5 with status excellent.
C3_InclusiveThresholds ==
    pc = "assessed" =>
        /\ normalized.currentLiabilities > 0 =>
              /\ evaluated.currentRatio.status =
                    C3_Prescribed(normalized.currentAssets,
                                  normalized.currentLiabilities,
                                  CurrentRatioThresholds)
              /\ evaluated.quickRatio.status =
                    C3_Prescribed(normalized.currentAssets - normalized.inventory,
                                  normalized.currentLiabilities,
                                  QuickRatioThresholds)
              /\ evaluated.cashRatio.status =
                    C3_Prescribed(normalized.cashAndEquivalents
                                      + normalized.shortTermInvestments,
                                  normalized.currentLiabilities,
                                  CashRatioThresholds)
        /\ normalized.totalAssets > 0 =>
              evaluated.equityRatio.status =
                  C3_Prescribed(normalized.equity, normalized.totalAssets,
                                EquityRatioThresholds)
        /\ (data.currentAssets = 150000 /\ data.currentLiabilities = 60000) =>
              /\ ratios.currentRatio = [num |-> 5, den |-> 2]
              /\ evaluated.currentRatio.value = [num |-> 5, den |-> 2]
              /\ evaluated.currentRatio.status = "excellent"

\* the record of scenario 4 assessed, its currentRatio exactly on the
\* excellent threshold
C3_Witness ==
    /\ pc = "assessed"
    /\ data.currentAssets = 150000 /\ data.currentLiabilities = 60000
    /\ evaluated.currentRatio.status = "excellent"

(***************************************************************************)
(* Claims on the string functions                                          *)
(***************************************************************************)
Whole(n) == [num |-> n, den |-> 1]

C6_HasDigit(s) == \E i \in 1..Len(s) : Char(s, i) \in Digits

\* s without its i-th character
C6_Without(s, i) == SubSeq(s, 1, i - 1) \o From(s, i + 1)

C6_NonNegative(o) == IsDefined(o) /\ Val(o).num >= 0

\* C6: parseNumericValue gives the listed results on the listed tokens; a
\* token "(" x ")" parses to the negation of the non-negative number x parses
\* to (and to null when x does not parse), a token "-" x likewise; a space,
\* no-break space or comma between two digits does not change the result;
\* a token without a digit parses to null.
C6_NumericTokenParser ==
    pc # "input" =>
        /\ inputStr = "(123)" => parsedValue = Def(Whole(-123))
        /\ inputStr = "1 234" => parsedValue = Def(Whole(1234))
        /\ inputStr = "(1 234)" => parsedValue = Def(Whole(-1234))
        /\ inputStr = "-500" => parsedValue = Def(Whole(-500))
        /\ inputStr = "-0" => parsedValue = Def(Whole(0))
        /\ inputStr = "0" => parsedValue = Def(Whole(0))
        /\ inputStr = "abc" => parsedValue = Null
        /\ ~C6_HasDigit(inputStr) => parsedValue = Null
        /\ (Len(inputStr) >= 2 /\ StartsWith(inputStr, "(") /\ EndsWith(inputStr, ")")) =>
              LET inside == parseNumericValue(SubSeq(inputStr, 2, Len(inputStr) - 1))
              IN  /\ inside = Null => parsedValue = Null
                  /\ C6_NonNegative(inside) => parsedValue = Def(Neg(Val(inside)))
        /\ StartsWith(inputStr, "-") =>
              LET rest == parseNumericValue(From(inputStr, 2))
              IN  /\ rest = Null => parsedValue = Null
                  /\ C6_NonNegative(rest) => parsedValue = Def(Neg(Val(rest)))
        /\ \A i \in 2..(Len(inputStr) - 1) :
              ( /\ Char(inputStr, i) \in {" ", "_", "~", ","}
                /\ Char(inputStr, i - 1) \in Digits
                /\ Char(inputStr, i + 1) \in Digits )
              => parsedValue = parseNumericValue(C6_Without(inputStr, i))

\* the parenthesized token with a thousands separator parsed to -1234
C6_Witness ==
    /\ pc = "parsed"
    /\ inputStr = "(1 234)"
    /\ parsedValue = Def(Whole(-1234))

\* C7: normalizeKey(normalizeKey(s)) = normalizeKey(s), and normalizeKey(s)
\* holds only lower-case letters, digits and single inner spaces.
C7_NormalizeKeyIdempotent ==
    /\ pc = "key2" => normKey2 = normKey
    /\ pc \in {"key", "key2"} =>
          /\ \A i \in 1..Len(normKey) :
                /\ Char(normKey, i) \in (Letters \cup Digits \cup {" "})
                /\ LowerChar(Char(normKey, i)) = Char(normKey, i)
                /\ Char(normKey, i) = " " =>
                      i > 1 /\ i < Len(normKey) /\ Char(normKey, i + 1) # " "

\* a label with capitals, punctuation and runs of spaces normalized twice
C7_Witness ==
    /\ pc = "key2"
    /\ inputStr = "  Kapital  i  rezervy: "
    /\ normKey = "kapital i rezervy"
    /\ normKey2 = normKey

(***************************************************************************)
(* Claims on the resolver                                                  *)
(***************************************************************************)
C4_Keys == resolving.field.possibleKeys

\* the raw key is the normalized form of synonym i
C4_IsExact(j, i) == dataMap[j].key = normalizedSynonym[C4_Keys[i]]

\* C4: when some synonym of the field is a raw key of the map, findValue of
\* either resolver returns the value filed under the earliest synonym that
\* is a raw key, whatever the synonyms before it match partially.
C4_ExactMatchWins ==
    (pc = "resolved" /\ \E i \in 1..Len(C4_Keys), j \in 1..Len(dataMap) : C4_IsExact(j, i))
        => \E i \in 1..Len(C4_Keys), j \in 1..Len(dataMap) :
              /\ C4_IsExact(j, i)
              /\ \A h \in 1..(i - 1), k \in 1..Len(dataMap) : ~C4_IsExact(k, h)
              /\ resolved = [kind |-> "value", value |-> dataMap[j].value]

\* a synonym before the earliest exact one matches another entry partially,
\* and the exact entry's value is returned
C4_Witness ==
    /\ pc = "resolved"
    /\ resolving.resolver = "document"
    /\ \E i \in 1..Len(C4_Keys), j \in 1..Len(dataMap) :
          /\ C4_IsExact(j, i)
          /\ \A h \in 1..(i - 1), k \in 1..Len(dataMap) : ~C4_IsExact(k, h)
          /\ \E h \in 1..(i - 1) :
                \E k \in PartialMatches(dataMap, C4_Keys[h]) : k # j
          /\ resolved = [kind |-> "value", value |-> dataMap[j].value]

\* seq is the first n elements of whole, or all of whole when it is shorter
C5_IsPrefix(seq, whole, n) ==
    /\ Len(seq) = (IF Len(whole) < n THEN Len(whole) ELSE n)
    /\ \A k \in 1..Len(seq) : seq[k] = whole[k]

\* no synonym of the field is a raw key, and no raw key holds every word
\* longer than two characters of a synonym that has such words
C5_NoMatch ==
    /\ ExactMatches(dataMap, resolving.field.possibleKeys) = {}
    /\ \A i \in 1..Len(resolving.field.possibleKeys) :
          PartialMatches(dataMap, resolving.field.possibleKeys[i]) = {}

\* C5: a required field that matches no raw key exactly or partially makes
\* findValue throw an error that names the field's first synonym, lists the
\* first three synonyms at most, and lists the first 15 (document) or 10
\* (spreadsheet) found labels at most; for totalAssets of a document the
\* first synonym is "balans".
C5_RequiredFieldMissing ==
    (pc = "resolved" /\ ~resolving.field.optional /\ C5_NoMatch)
        => /\ resolved.kind = "error"
           /\ resolved.field = resolving.field.possibleKeys[1]
           /\ C5_IsPrefix(resolved.suggested, resolving.field.possibleKeys, 3)
           /\ C5_IsPrefix(resolved.found, foundKeys,
                          IF resolving.resolver = "document" THEN 15 ELSE 10)
           /\ (resolving.resolver = "document" /\ resolving.field.name = "totalAssets")
                 => resolved.field = "balans"

\* a spreadsheet with more than 10 found labels and a document with more
\* than 15 both fail on a required field: the spreadsheet case here, the
\* document case in C5_WitnessDocument
C5_Witness ==
    /\ pc = "resolved"
    /\ resolving.resolver = "spreadsheet"
    /\ ~resolving.field.optional
    /\ C5_NoMatch
    /\ Len(foundKeys) > 10
    /\ Len(resolving.field.possibleKeys) > 3
    /\ resolved.kind = "error"

C5_WitnessDocument ==
    /\ pc = "resolved"
    /\ resolving.resolver = "document"
    /\ resolving.field.name = "totalAssets"
    /\ C5_NoMatch
    /\ Len(foundKeys) > 15
    /\ resolved.kind = "error"
    /\ resolved.field = "balans"

(***************************************************************************)
(* Claims on the strategies of parseFinancialDataFromText                  *)
(***************************************************************************)
\* lines i, i + 1, i + 2 are a label that is no bare code, a bare 4-digit
\* code and a value that parses
C8_Triplet(i) ==
    /\ i + 2 <= Len(lines)
    /\ ~codePattern(lines[i])
    /\ codePattern(lines[i + 1])
    /\ IsDefined(parseNumericValue(lines[i + 2]))

\* the multi-line step on a triplet leaves normalize(label) -> parse(value)
\* in the raw map: for every label, or only for labels that normalize to a
\* non-empty key
C8_RecordsTriplet(anyLabel) ==
    (pc = "multiLine" /\ C8_Triplet(idx)
        /\ (anyLabel \/ normalizeKey(lines[idx]) # ""))
        => /\ MapHas(dataMap', normalizeKey(lines[idx]))
           /\ MapGet(dataMap', normalizeKey(lines[idx]))
                 = Val(parseNumericValue(lines[idx + 2]))

\* the multi-line step on a bare code line records nothing
C8_CodeLineNeverLabel ==
    (pc = "multiLine" /\ codePattern(lines[idx]))
        => dataMap' = dataMap /\ foundKeys' = foundKeys

C8_CashKeys ==
    {normalizedSynonym[DocumentFields[2].possibleKeys[n]] :
        n \in 1..Len(DocumentFields[2].possibleKeys)}

\* the document holds "Denejnye sredstva", "1250", "45000" in a row, no
\* other line "1250" and no other line that normalizes to a synonym of
\* cashAndEquivalents
C8_ExampleDocument ==
    \E i \in 1..(Len(lines) - 2) :
        /\ SubSeq(lines, i, i + 2) = <<"Denejnye sredstva", "1250", "45000">>
        /\ \A j \in 1..Len(lines) :
              /\ j # i + 1 => lines[j] # "1250"
              /\ j # i => normalizeKey(lines[j]) \notin C8_CashKeys

\* an extraction that succeeds on such a document gives 45000
C8_Example ==
    (pc = "done" /\ extracted.kind = "data" /\ C8_ExampleDocument)
        => extracted.data.cashAndEquivalents = Whole(45000)

\* C8 as stated: Strategy A records normalize(label) -> parse(value) for
\* every triplet label, code, value whose label is no bare 4-digit line,
\* never uses a bare 4-digit line as a label, and the lines "Denejnye
\* sredstva", "1250", "45000" give cashAndEquivalents = 45000.
C8_AsStated ==
    /\ [][C8_RecordsTriplet(TRUE) /\ C8_CodeLineNeverLabel]_vars
    /\ []C8_Example

\* C8, amended: Strategy A records normalize(label) -> parse(value) for every
\* triplet label, code, value whose label is no bare 4-digit line and
\* normalizes to a non-empty key; it never uses a bare 4-digit line as a
\* label; the lines "Denejnye sredstva", "1250", "45000" give
\* cashAndEquivalents = 45000.
C8_MultiLineTriplet ==
    /\ [][C8_RecordsTriplet(FALSE) /\ C8_CodeLineNeverLabel]_vars
    /\ []C8_Example

\* the example triplet recorded, the document extracted
C8_Witness ==
    /\ pc = "done"
    /\ C8_ExampleDocument
    /\ MapHas(dataMap, "denejnye sredstva")
    /\ MapGet(dataMap, "denejnye sredstva") = Whole(45000)
    /\ extracted.kind = "data"
    /\ extracted.data.cashAndEquivalents = Whole(45000)

\* a triplet whose label normalizes to the empty key has been passed and
\* nothing is filed under the empty key
C8_WitnessEmptyKey ==
    /\ pc = "multiLine"
    /\ idx > 1
    /\ C8_Triplet(idx - 1)
    /\ normalizeKey(lines[idx - 1]) = ""
    /\ ~MapHas(dataMap, "")

\* Strategy A records at least one field on the document
C9_MultiLineRecords ==
    \E i \in 1..Len(lines) : C8_Triplet(i) /\ normalizeKey(lines[i]) # ""

\* "Zapasy 1210 35000" is a line and no later line is a single-line match
\* filed under the same key
C9_ExampleDocument ==
    \E i \in 1..Len(lines) :
        /\ lines[i] = "Zapasy 1210 35000"
        /\ \A j \in (i + 1)..Len(lines) :
              singleLineField(lines, j) # <<>>
                  => singleLineField(lines, j)[1].key # "zapasy"

\* C9: the single-line loop runs if and only if Strategy A recorded no field.
\* When A recorded one, no line is handled by the single-line loop and the
\* raw map the code loop starts from holds triplet labels only; when it
\* recorded none, every single-line match is filed, and the line
\* "Zapasy 1210 35000" gives inventory = 35000.
C9_SingleLineIffNoMultiLine ==
    /\ pc = "singleLine" => ~C9_MultiLineRecords
    /\ (pc = "codes" /\ idx = 1 /\ ~C9_MultiLineRecords)
          => /\ \A i \in 1..Len(lines) :
                   singleLineField(lines, i) # <<>>
                       => MapHas(dataMap, singleLineField(lines, i)[1].key)
             /\ C9_ExampleDocument
                   => /\ MapHas(dataMap, "zapasy")
                      /\ MapGet(dataMap, "zapasy") = Whole(35000)
    /\ (pc = "codes" /\ idx = 1 /\ C9_MultiLineRecords)
          => \A j \in 1..Len(dataMap) :
                \E i \in 1..Len(lines) :
                    C8_Triplet(i) /\ dataMap[j].key = normalizeKey(lines[i])
    /\ (pc = "done" /\ extracted.kind = "data" /\ ~C9_MultiLineRecords
            /\ C9_ExampleDocument)
          => extracted.data.inventory = Whole(35000)

\* Strategy A recorded nothing and the example line gave the inventory
C9_Witness ==
    /\ pc = "done"
    /\ ~C9_MultiLineRecords
    /\ C9_ExampleDocument
    /\ extracted.kind = "data"
    /\ extracted.data.inventory = Whole(35000)

\* Strategy A recorded a field and the example line of the document is not
\* in the raw map the code loop starts from
C9_WitnessSkipped ==
    /\ pc = "codes"
    /\ idx = 1
    /\ C9_MultiLineRecords
    /\ \E i \in 1..Len(lines) : lines[i] = "Zapasy 1210 35000"
    /\ ~MapHas(dataMap, "zapasy")

\* line i is a bare 4-digit code of the table followed by a line that parses
C10_Eligible(i) ==
    /\ codePattern(lines[i])
    /\ codeToFieldMapGet(lines[i]) # <<>>
    /\ i + 1 <= Len(lines)
    /\ IsDefined(parseNumericValue(lines[i + 1]))

C10_Key(i) == normalizeKey(codeToFieldMapGet(lines[i])[1])

\* a step of the code loop keeps every entry of the raw map, and on an
\* eligible line whose canonical key is absent files the following value
C10_InsertIfAbsent ==
    pc = "codes"
        => /\ Len(dataMap') >= Len(dataMap)
           /\ \A j \in 1..Len(dataMap) : dataMap'[j] = dataMap[j]
           /\ C10_Eligible(idx)
                 => /\ MapHas(dataMap', C10_Key(idx))
                    /\ ~MapHas(dataMap, C10_Key(idx))
                          => MapGet(dataMap', C10_Key(idx))
                                = Val(parseNumericValue(lines[idx + 1]))
           /\ ~C10_Eligible(idx) => dataMap' = dataMap

\* the code loop starts at the first line when Strategy A or B ends, visits
\* every line, and the field mapping starts only when it ends
C10_RunsAfter ==
    /\ (pc # "codes" /\ pc' = "codes")
          => pc \in {"multiLine", "singleLine"} /\ idx = Len(lines) /\ idx' = 1
    /\ pc = "codes"
          => \/ pc' = "codes" /\ idx' = idx + 1
             \/ pc' = "fields" /\ idx = Len(lines)
    /\ (pc # "fields" /\ pc' = "fields") => pc = "codes"
    /\ pc \in {"multiLine", "singleLine"} => pc' \in {"multiLine", "singleLine", "codes"}

\* C10: Strategy C runs after A/B on every document; for every bare 4-digit
\* line whose code is in the table and whose following line parses it files
\* canonical name -> value only if the key is absent, and never changes an
\* entry written by Strategy A or B or by an earlier Strategy C line.
C10_CodeFallbackFirstWriterWins ==
    [][C10_InsertIfAbsent /\ C10_RunsAfter]_vars

\* the code loop has passed an eligible line whose key the map already held
\* with another value, and the map still holds that value
C10_Witness ==
    /\ pc = "codes"
    /\ idx > 1
    /\ C10_Eligible(idx - 1)
    /\ MapHas(dataMap, C10_Key(idx - 1))
    /\ MapGet(dataMap, C10_Key(idx - 1)) # Val(parseNumericValue(lines[idx]))

(***************************************************************************)
(* Claims on the normalizer and on the assessment                          *)
(***************************************************************************)

\* C12: validateAndNormalizeFinancialData returns a record for every input,
\* in tolerance or not; the record has the input's fields, each but
\* totalLiabilities with the input's value, and the input record is not
\* modified.
C12_NormalizeFrame ==
    /\ [](pc # "input" =>
            /\ DOMAIN normalized = DOMAIN data
            /\ \A f \in DOMAIN data \ {"totalLiabilities"} :
                  normalized[f] = data[f])
    /\ [][data' = data]_vars

\* a record out of tolerance came back with a new totalLiabilities and
\* nothing else changed
C12_Witness ==
    /\ pc = "normalized"
    /\ mismatch
    /\ normalized.totalLiabilities # data.totalLiabilities
    /\ normalized = [data EXCEPT !.totalLiabilities = normalized.totalLiabilities]

C13_Difference ==
    Abs(data.totalAssets
            - (data.equity + data.longTermDebt + data.currentLiabilities))

\* C13: the balance warning is logged exactly when
\* |totalAssets - (equity + longTermDebt + currentLiabilities)| exceeds 1% of
\* totalAssets, a difference of exactly 1% passing; equity 180000,
\* longTermDebt 60000, currentLiabilities 60000, totalAssets 300000 give
\* totalLiabilities 120000 and no warning, the difference being 0.
C13_BalanceTolerance ==
    pc # "input" =>
        /\ mismatch <=> 100 * C13_Difference > data.totalAssets
        /\ (data.totalAssets > 0 /\ 100 * C13_Difference = data.totalAssets)
              => ~mismatch
        /\ (data.equity = 180000 /\ data.longTermDebt = 60000
                /\ data.currentLiabilities = 60000 /\ data.totalAssets = 300000)
              => /\ normalized.totalLiabilities = 120000
                 /\ C13_Difference = 0
                 /\ ~mismatch

\* a record off by exactly 1% of its totalAssets passed the check
C13_Witness ==
    /\ pc = "normalized"
    /\ data.totalAssets = 300000
    /\ C13_Difference = 3000
    /\ ~mismatch

\* a record off by one more than 1% of its totalAssets was reported
C13_WitnessReported ==
    /\ pc = "normalized"
    /\ data.totalAssets = 300000
    /\ C13_Difference = 3001
    /\ mismatch

\* the status the claim prescribes for the value v of a reverse ratio
C14_Prescribed(v, t) ==
    IF v.num * t.excellent.den <= t.excellent.num * v.den THEN "excellent"
    ELSE IF v.num * t.good.den <= t.good.num * v.den THEN "good"
    ELSE IF v.num * t.warning.den <= t.warning.num * v.den THEN "warning"
    ELSE "critical"

C14_Rank(status) ==
    CASE status = "excellent" -> 0
      [] status = "good" -> 1
      [] status = "warning" -> 2
      [] status = "critical" -> 3

\* tenths from 0 to 3: every threshold of the reverse ratios and the values
\* around them
C14_Values == {Rat(n, 10) : n \in 0..30}

\* the assessed reverse ratio has the prescribed status and the computed
\* value, no lower value of the grid is rated worse and no higher one better
C14_ReverseRatio(computed, assessed, t) ==
    /\ assessed.value = computed
    /\ assessed.status = C14_Prescribed(computed, t)
    /\ \A w \in C14_Values :
          /\ Le(w, computed) =>
                C14_Rank(getRatioStatus(w, t, TRUE)) <= C14_Rank(assessed.status)
          /\ Ge(w, computed) =>
                C14_Rank(getRatioStatus(w, t, TRUE)) >= C14_Rank(assessed.status)

\* C14: evaluateRatios classifies debtToEquityRatio, debtRatio and
\* financialLeverageRatio with <= on the value as computed: excellent up to
\* the excellent threshold, else good up to the good one, else warning up to
\* the warning one, else critical; a lower value never gets a worse status
\* than a higher one.
C14_ReverseRatios ==
    pc = "assessed" =>
        /\ C14_ReverseRatio(ratios.debtToEquityRatio,
                            evaluated.debtToEquityRatio, DebtToEquityThresholds)
        /\ C14_ReverseRatio(ratios.debtRatio, evaluated.debtRatio,
                            DebtRatioThresholds)
        /\ C14_ReverseRatio(ratios.financialLeverageRatio,
                            evaluated.financialLeverageRatio,
                            FinancialLeverageThresholds)

\* debtToEquityRatio exactly on its excellent threshold and debtRatio above
\* its warning threshold
C14_Witness ==
    /\ pc = "assessed"
    /\ ratios.debtToEquityRatio = Rat(1, 2)
    /\ evaluated.debtToEquityRatio.status = "excellent"
    /\ Ge(ratios.debtRatio, Rat(3, 5)) /\ ratios.debtRatio # Rat(3, 5)
    /\ evaluated.debtRatio.status = "critical"

\* C15: evaluateRatios gives workingCapital = currentAssets -
\* currentLiabilities the status excellent when it is strictly positive and
\* critical otherwise, exactly 0 included; never good or warning.
C15_WorkingCapitalBinary ==
    pc = "assessed" =>
        /\ ratios.workingCapital
              = normalized.currentAssets - normalized.currentLiabilities
        /\ evaluated.workingCapital.value = ratios.workingCapital
        /\ evaluated.workingCapital.status
              = (IF normalized.currentAssets > normalized.currentLiabilities
                 THEN "excellent" ELSE "critical")
        /\ evaluated.workingCapital.status \notin {"good", "warning"}

\* working capital of exactly 0 on non-zero amounts, rated critical
C15_Witness ==
    /\ pc = "assessed"
    /\ normalized.currentAssets > 0
    /\ normalized.currentAssets = normalized.currentLiabilities
    /\ evaluated.workingCapital.status = "critical"

(***************************************************************************)
(* Claims on what parseFinancialDataFromText returns                       *)
(***************************************************************************)
C16_Required == {f \in 1..Len(DocumentFields) : ~DocumentFields[f].optional}

\* some raw key matches a synonym of field f exactly or partially
C16_Resolves(f) ==
    \/ ExactMatches(dataMap, DocumentFields[f].possibleKeys) # {}
    \/ \E i \in 1..Len(DocumentFields[f].possibleKeys) :
          PartialMatches(dataMap, DocumentFields[f].possibleKeys[i]) # {}

C16_AllResolve == \A f \in C16_Required : C16_Resolves(f)

\* the amount field f resolves to
C16_Amount(f) ==
    findValue(dataMap, foundKeys, DocumentFields[f].possibleKeys, FALSE).value

\* the required amounts are non-negative and those named are positive
C16_Accepted(positive) ==
    \A f \in C16_Required :
        IF DocumentFields[f].name \in positive
        THEN C16_Amount(f).num > 0 ELSE C16_Amount(f).num >= 0

\* a step of a strategy loop ends in no error, whatever the line
C16_LinesNeverFail ==
    pc \in {"multiLine", "singleLine", "codes"}
        => /\ extracted' = extracted
           /\ pc' \in {"multiLine", "singleLine", "codes", "fields"}

\* C16 as stated: extraction fails only through the required-field check: no
\* line makes a strategy fail, and every document whose required fields all
\* resolve to a value gives a record.
C16_AsStated ==
    /\ [][C16_LinesNeverFail]_vars
    /\ [](pc = "done" =>
            /\ extracted.kind # "data" => extracted.kind = "error"
            /\ C16_AllResolve => extracted.kind = "data")

\* C16, amended: extraction fails only through the required-field check or
\* the schema validation of the assembled record: no line makes a strategy
\* fail; the required-field error is thrown exactly when a required field
\* resolves to nothing, and a record is returned exactly when all required
\* fields resolve to amounts the schema accepts (currentAssets, totalAssets
\* and equity positive, the other eight non-negative).
C16_FailsOnlyInMapping ==
    /\ [][C16_LinesNeverFail]_vars
    /\ [](pc = "done" =>
            /\ extracted.kind \in {"error", "invalid", "data"}
            /\ extracted.kind = "error" <=> ~C16_AllResolve
            /\ extracted.kind = "data" <=>
                  (C16_AllResolve
                      /\ C16_Accepted({"currentAssets", "totalAssets", "equity"})))

\* a document with a line no strategy matches gave a record
C16_Witness ==
    /\ pc = "done"
    /\ \E i \in 1..Len(lines) : lines[i] = "abc"
    /\ C16_AllResolve
    /\ extracted.kind = "data"

\* every required field resolved and the schema rejected the record
C16_WitnessInvalid ==
    /\ pc = "done"
    /\ C16_AllResolve
    /\ extracted.kind = "invalid"

C17_BalanceSheetFields == PositiveFields \cup NonNegativeFields

\* C17 as stated: a returned record has the eleven balance-sheet fields
\* non-negative, and total assets and equity are the only ones that must be
\* positive: a document resolving to total assets and equity above 0 and
\* the other nine at 0 or above, current assets included, gives a record.
C17_AsStated ==
    pc = "done" =>
        /\ extracted.kind = "data" =>
              \A name \in C17_BalanceSheetFields : extracted.data[name].num >= 0
        /\ (C16_AllResolve /\ C16_Accepted({"totalAssets", "equity"}))
              => extracted.kind = "data"

\* C17, amended: a returned record has the eleven balance-sheet fields
\* non-negative and current assets, total assets and equity positive; a
\* document resolving to those three above 0 and the other eight at 0 or
\* above gives a record, and one resolving to current assets 0 gives none.
C17_SchemaPositivity ==
    pc = "done" =>
        /\ extracted.kind = "data" =>
              /\ \A name \in C17_BalanceSheetFields :
                    extracted.data[name].num >= 0
              /\ \A name \in {"currentAssets", "totalAssets", "equity"} :
                    extracted.data[name].num > 0
        /\ (C16_AllResolve
                /\ C16_Accepted({"currentAssets", "totalAssets", "equity"}))
              => extracted.kind = "data"
        /\ (C16_AllResolve /\ C16_Amount(1).num = 0) => extracted.kind = "invalid"

\* a record returned with the eight other balance-sheet fields at 0
C17_Witness ==
    /\ pc = "done"
    /\ extracted.kind = "data"
    /\ \A name \in NonNegativeFields : extracted.data[name] = Zero
    /\ extracted.data.currentAssets.num > 0

\* current assets 0 with every other amount acceptable: no record
C17_WitnessRejected ==
    /\ pc = "done"
    /\ C16_AllResolve
    /\ C16_Accepted({"totalAssets", "equity"})
    /\ C16_Amount(1) = Zero
    /\ extracted.kind = "invalid"
    /\ extracted.issues = {"currentAssets"}

(***************************************************************************)
(* Claims on the analysis run                                              *)
(***************************************************************************)
\* the label of the line each income-statement field is read from
C11_Labels ==
    [ revenue |-> "Vyruqka", grossProfit |-> "Valovaw pribyl'",
      operatingIncome |-> "Pribyl' ot prodaj", netIncome |-> "Qistaw pribyl'" ]

\* the income-statement fields each profitability ratio divides
C11_Operands ==
    [ roa |-> {"netIncome"}, roe |-> {"netIncome"},
      ros |-> {"netIncome", "revenue"},
      grossProfitMargin |-> {"grossProfit", "revenue"},
      operatingProfitMargin |-> {"operatingIncome", "revenue"},
      netProfitMargin |-> {"netIncome", "revenue"} ]

\* the document has a line for the field
C11_Found(document, field) ==
    \E i \in 1..Len(document) : Includes(document[i], C11_Labels[field])

\* the request has come past compute_ratios
C11_Computed(r) ==
    requests[r].pc \in {"enriching", "saving"} \/ requests[r].result # NoRecord

\* C11: when a document has no line for an income-statement field, every
\* profitability ratio that uses the field is absent from the ratios computed
\* for it, and from the evaluated ratios.
C11_AbsentWhenNotFound ==
    \A r \in Requests :
        C11_Computed(r) =>
            \A ratio \in DOMAIN C11_Operands :
                (\E field \in C11_Operands[ratio] :
                    ~C11_Found(requests[r].document, field))
                => /\ requests[r].ratios[ratio] = Undefined
                   /\ requests[r].evaluatedRatios[ratio] = Undefined

\* the steps and the two debt ratios of request r as the claim has them
C19_Holds(r) ==
    LET parsed == requests[r].financialData
        liabilities == parsed.longTermDebt + parsed.currentLiabilities
    IN  /\ requests[r].steps =
              <<"extract", "normalize", "compute_ratios", "assess">>
        /\ requests[r].ratios.debtRatio =
              RatioOrZero(liabilities, parsed.totalAssets)
        /\ requests[r].ratios.debtToEquityRatio =
              RatioOrZero(liabilities, parsed.equity)

\* C19: every analysis run takes the steps extract, normalize, compute_ratios,
\* assess in this order, and its debtRatio and debtToEquityRatio are computed
\* from longTermDebt + currentLiabilities, never from the parsed
\* totalLiabilities.
C19_NormalizedBeforeRatios ==
    \A r \in Requests : C11_Computed(r) => C19_Holds(r)

\* the same on the handlers that call validateAndNormalizeFinancialData
C19_OnNormalizingHandlers ==
    server.handler # "initial" => C19_NormalizedBeforeRatios

(***************************************************************************)
(* Claims on the narrative enrichment                                      *)
(***************************************************************************)
\* the call has returned or thrown
C18_Settled == enrichment.pc = "returned"

\* the rule-based fallback came back
C18_Fallback ==
    /\ enrichment.result.kind = "report"
    /\ enrichment.result.report =
           generateFallbackAnalysis(enrichment.data, enrichment.ratios,
                                    enrichment.okved)

\* the cases in which the analysis request gives no usable reply
C18_RequestFailed ==
    enrichment.reply # <<>>
        /\ enrichment.reply.kind \in {"error", "timeout", "empty", "unparsable"}

\* C18 as stated: the call returns a report and throws nothing, and the
\* report is the rule-based fallback when the service is not configured, the
\* request fails or times out, the reply is empty or unparsable, or the
\* sector lookup times out.
C18_AsStated ==
    C18_Settled =>
        /\ enrichment.result.kind = "report"
        /\ (\/ ~enrichment.configured
            \/ C18_RequestFailed
            \/ enrichment.lookup = "timeout") => C18_Fallback

\* what a settled call has returned
C18_Returns ==
    C18_Settled =>
        /\ enrichment.result.kind = "report"
        /\ (~enrichment.configured \/ C18_RequestFailed) => C18_Fallback
        /\ enrichment.lookup = "timeout" =>
              /\ enrichment.sectorName =
                     sectorPlaceholder(Val(enrichment.okved))
              /\ enrichment.reply # <<>>
              /\ enrichment.reply.kind = "object" =>
                     enrichment.result.report =
                         validatedReport(enrichment.reply.result,
                                         enrichment.ratios,
                                         enrichment.sectorName)

\* C18: generateFinancialAnalysis always completes with a report and throws
\* nothing. The report is the rule-based fallback when the service is not
\* configured, the request fails or times out, or the reply is empty or
\* unparsable. When the sector lookup times out the placeholder sector name
\* is used and the analysis request is still made, its reply deciding the
\* report. The record and the ratios passed in are unchanged.
C18_AlwaysReports ==
    /\ <>C18_Settled
    /\ []C18_Returns
    /\ [][/\ enrichment'.data = enrichment.data
          /\ enrichment'.ratios = enrichment.ratios]_vars

C18_Witness ==
    /\ C18_Settled
    /\ enrichment.configured
    /\ enrichment.lookup = "content"
    /\ enrichment.reply.kind = "unparsable"
    /\ C18_Fallback
    /\ enrichment.result.report.riskLevel = "medium"

\* the sector lookup timed out and the report of the service came back
C18_WitnessLookupTimeout ==
    /\ C18_Settled
    /\ enrichment.lookup = "timeout"
    /\ enrichment.reply.kind = "object"
    /\ enrichment.result.report.producedBy = "validated"
    /\ enrichment.result.report.description = "IT-otrasl'"

(***************************************************************************)
(* Claims on concurrent requests                                           *)
(***************************************************************************)
\* the analysis request r produces when it is the only request: computed
\* from what its document parses to and what the enrichment service replied
C20_Alone(r) ==
    LET record == analysedData(server.handler,
                               CalculatorFields(requests[r].parsing.data))
        computed == calculateFinancialRatios(record)
        report == generateFinancialAnalysis(server.configured, record, computed,
                                            Undefined, "content",
                                            requests[r].reply).report
    IN  analysisResultOf(server.handler, record, evaluateRatios(computed), report)

\* the analyses stored under the id given to request r
C20_Stored(r) ==
    {analyses[j].value : j \in {k \in 1..Len(analyses) :
                                   analyses[k].key = requests[r].id}}

\* request r failed: its document gave no record
C20_Failed(r) == requests[r].parsing.kind # "data"

\* request r has stored its analysis
C20_Saved(r) ==
    ~C20_Failed(r) /\ requests[r].pc \in {"saving", "responded"}

\* C20: in every interleaving of two requests at their await points, a
\* request that fails answers with its own error and stores nothing, and a
\* request that succeeds stores and returns the record, ratios and analysis
\* it produces when run alone, whatever the other request does or fails at.
C20_RequestsIndependent ==
    /\ \A r \in Requests :
          /\ C20_Failed(r) /\ requests[r].pc = "responded" =>
                /\ requests[r].response = errorResponse(requests[r].parsing)
                /\ requests[r].id = ""
          /\ C20_Saved(r) => C20_Stored(r) = {C20_Alone(r)}
          /\ C20_Saved(r) /\ requests[r].pc = "responded" =>
                requests[r].response =
                    [status |-> 200, id |-> requests[r].id,
                     result |-> C20_Alone(r)]
    /\ Len(analyses) = Cardinality({r \in Requests : C20_Saved(r)})

\* one request has failed and the other has answered with its analysis,
\* which is the only one stored
C20_Witness ==
    /\ C20_Failed("first")
    /\ requests["first"].pc = "responded"
    /\ C20_Saved("second")
    /\ requests["second"].pc = "responded"
    /\ requests["second"].response.result.data.totalLiabilities = 120000
    /\ Len(analyses) = 1

\* both requests have stored their analyses, of different documents
C20_WitnessBoth ==
    /\ C20_Saved("first")
    /\ C20_Saved("second")
    /\ requests["first"].document # requests["second"].document
    /\ requests["first"].pc = "saving"
    /\ requests["second"].pc = "responded"
    /\ Len(analyses) = 2


(***************************************************************************)
(* Monotonic and total classification (financial-calculator.ts 97-181)     *)
(***************************************************************************)
C29_Statuses == {"excellent", "good", "warning", "critical"}

\* twentieths from -1 to 3: every threshold of evaluateRatios and the values
\* around them, negative quotients included
C29_Values == {Rat(n, 20) : n \in -20..60}

\* the status assessed for the computed value is one of the four, and against
\* every value of the grid the order of the statuses follows the order of the
\* values: the same way for a non-reverse ratio, the opposite way for a
\* reverse one
C29_Monotonic(assessed, t, reverse) ==
    /\ assessed.status \in C29_Statuses
    /\ assessed.status = getRatioStatus(assessed.value, t, reverse)
    /\ \A w \in C29_Values :
          LET other == getRatioStatus(w, t, reverse)
          IN  /\ other \in C29_Statuses
              /\ (Le(assessed.value, w) /\ ~reverse) =>
                    C14_Rank(other) <= C14_Rank(assessed.status)
              /\ (Le(w, assessed.value) /\ ~reverse) =>
                    C14_Rank(other) >= C14_Rank(assessed.status)
              /\ (Le(assessed.value, w) /\ reverse) =>
                    C14_Rank(other) >= C14_Rank(assessed.status)
              /\ (Le(w, assessed.value) /\ reverse) =>
                    C14_Rank(other) <= C14_Rank(assessed.status)

C29_MonotonicOptional(o, t) ==
    IsDefined(o) => C29_Monotonic(Val(o), t, FALSE)

\* C29: for every ratio of evaluateRatios and every pair of values a <= b, a
\* non-reverse ratio never rates b worse than a, a reverse ratio never rates
\* b better than a, and every value gets exactly one of excellent, good,
\* warning, critical.
C29_MonotonicAndTotal ==
    pc = "assessed" =>
        /\ C29_Monotonic(evaluated.currentRatio, CurrentRatioThresholds, FALSE)
        /\ C29_Monotonic(evaluated.quickRatio, QuickRatioThresholds, FALSE)
        /\ C29_Monotonic(evaluated.cashRatio, CashRatioThresholds, FALSE)
        /\ C29_Monotonic(evaluated.equityRatio, EquityRatioThresholds, FALSE)
        /\ C29_Monotonic(evaluated.debtToEquityRatio, DebtToEquityThresholds, TRUE)
        /\ C29_Monotonic(evaluated.debtRatio, DebtRatioThresholds, TRUE)
        /\ C29_Monotonic(evaluated.financialLeverageRatio,
                         FinancialLeverageThresholds, TRUE)
        /\ C29_MonotonicOptional(evaluated.roa, RoaThresholds)
        /\ C29_MonotonicOptional(evaluated.roe, RoeThresholds)
        /\ C29_MonotonicOptional(evaluated.ros, RosThresholds)
        /\ C29_MonotonicOptional(evaluated.grossProfitMargin,
                                 GrossProfitMarginThresholds)
        /\ C29_MonotonicOptional(evaluated.operatingProfitMargin,
                                 OperatingProfitMarginThresholds)
        /\ C29_MonotonicOptional(evaluated.netProfitMargin,
                                 NetProfitMarginThresholds)
        /\ evaluated.workingCapital.status \in C29_Statuses
        /\ \A w \in Amounts :
              /\ evaluated.workingCapital.value <= w =>
                    C14_Rank(workingCapitalStatus(w))
                        <= C14_Rank(evaluated.workingCapital.status)
              /\ w <= evaluated.workingCapital.value =>
                    C14_Rank(workingCapitalStatus(w))
                        >= C14_Rank(evaluated.workingCapital.status)

\* a non-reverse ratio and a reverse ratio both assessed in a middle tier, so
\* that the grid holds values rated better and values rated worse on each side
C29_Witness ==
    /\ pc = "assessed"
    /\ evaluated.currentRatio.status \in {"good", "warning"}
    /\ evaluated.debtRatio.status \in {"good", "warning"}
    /\ \E a, b \in C29_Values :
          /\ Le(a, ratios.currentRatio) /\ Le(ratios.currentRatio, b)
          /\ getRatioStatus(a, CurrentRatioThresholds, FALSE) = "critical"
          /\ getRatioStatus(b, CurrentRatioThresholds, FALSE) = "excellent"
    /\ \E a, b \in C29_Values :
          /\ Le(a, ratios.debtRatio) /\ Le(ratios.debtRatio, b)
          /\ getRatioStatus(a, DebtRatioThresholds, TRUE) = "excellent"
          /\ getRatioStatus(b, DebtRatioThresholds, TRUE) = "critical"

(***************************************************************************)
(* The zero fallback assessed (financial-calculator.ts 44-71, 108-149)     *)
(***************************************************************************)
\* C30: the 0 a ratio falls back to on a non-positive denominator is rated
\* excellent for the reverse ratios (debtToEquityRatio and
\* financialLeverageRatio when equity <= 0, debtRatio when totalAssets <= 0)
\* and critical for the liquidity ratios (currentLiabilities <= 0).
C30_FallbackStatus ==
    pc = "assessed" =>
        /\ normalized.equity <= 0 =>
              /\ evaluated.debtToEquityRatio = RatioWithStatus(Zero, "excellent")
              /\ evaluated.financialLeverageRatio
                    = RatioWithStatus(Zero, "excellent")
        /\ normalized.totalAssets <= 0 =>
              evaluated.debtRatio = RatioWithStatus(Zero, "excellent")
        /\ normalized.currentLiabilities <= 0 =>
              /\ evaluated.currentRatio = RatioWithStatus(Zero, "critical")
              /\ evaluated.quickRatio = RatioWithStatus(Zero, "critical")
              /\ evaluated.cashRatio = RatioWithStatus(Zero, "critical")

\* negative equity under positive liabilities and assets: both equity ratios
\* fall back to 0 and are rated excellent
C30_Witness ==
    /\ pc = "assessed"
    /\ normalized.equity < 0
    /\ normalized.totalLiabilities > 0 /\ normalized.totalAssets > 0
    /\ evaluated.debtToEquityRatio.status = "excellent"
    /\ evaluated.financialLeverageRatio.status = "excellent"

\* the liquidity ratios of a record without current liabilities: 0, critical
C30_WitnessLiquidity ==
    /\ pc = "assessed"
    /\ normalized.currentLiabilities = 0 /\ normalized.currentAssets > 0
    /\ evaluated.currentRatio = RatioWithStatus(Zero, "critical")
    /\ normalized.totalAssets <= 0
    /\ evaluated.debtRatio = RatioWithStatus(Zero, "excellent")

(***************************************************************************)
(* The sign of a numeric token (document-parser.ts 174-199)                *)
(***************************************************************************)
\* the token is wrapped in parentheses once trimmed
C22_Wrapped(s) == StartsWith(Trim(s), "(") /\ EndsWith(Trim(s), ")")

\* the token, unwrapped and with its separators removed, starts with a minus
C22_LeadingMinus(s) ==
    LET trimmed == Trim(s)
        inner == IF C22_Wrapped(s)
                 THEN Trim(SubSeq(trimmed, 2, Len(trimmed) - 1)) ELSE trimmed
    IN  StartsWith(RemoveAll(inner, Separators), "-")

\* what is left of the token without parentheses and minus signs: its
\* magnitude
C22_Magnitude(s) == parseNumericValue(RemoveAll(s, {"(", ")", "-"}))

\* C22: parseNumericValue negates once when the token is wrapped in
\* parentheses or has a leading minus after separator removal, both together
\* included: "(-5)" parses to -5, never to +5.
C22_NegatedOnce ==
    pc # "input" =>
        /\ inputStr = "(-5)" => parsedValue = Def(Whole(-5))
        /\ IsDefined(parsedValue) =>
              /\ IsDefined(C22_Magnitude(inputStr))
              /\ Val(C22_Magnitude(inputStr)).num >= 0
              /\ parsedValue =
                    (IF C22_Wrapped(inputStr) \/ C22_LeadingMinus(inputStr)
                     THEN Def(Neg(Val(C22_Magnitude(inputStr))))
                     ELSE C22_Magnitude(inputStr))
        /\ (C22_Wrapped(inputStr) /\ C22_LeadingMinus(inputStr)
              /\ IsDefined(parsedValue)) => Val(parsedValue).num <= 0

\* the token with both marks of a negative number parsed to -5
C22_Witness ==
    /\ pc = "parsed"
    /\ inputStr = "(-5)"
    /\ C22_Wrapped(inputStr) /\ C22_LeadingMinus(inputStr)
    /\ parsedValue = Def(Whole(-5))

(***************************************************************************)
(* Partial matching (document-parser.ts 633-646, excel-parser.ts 209-225)  *)
(***************************************************************************)
\* the words of length > 2 of the normalized synonym
C21_Words(synonym) == SelectSeq(synonymWords[synonym], LAMBDA w : Len(w) > 2)

\* the entries whose raw key holds every such word as a substring (a synonym
\* without such a word selects no entry)
C21_Entries(synonym) ==
    {j \in 1..Len(dataMap) :
        /\ C21_Words(synonym) # <<>>
        /\ \A n \in 1..Len(C21_Words(synonym)) :
              Includes(dataMap[j].key, C21_Words(synonym)[n])}

\* the synonyms, by position, that select some entry
C21_Synonyms == {i \in 1..Len(C4_Keys) : C21_Entries(C4_Keys[i]) # {}}

\* without an exact match the value is the one of the first entry, in
\* insertion order, selected by the first synonym, in list order, that
\* selects any
C21_Rule ==
    (ExactMatches(dataMap, C4_Keys) = {} /\ C21_Synonyms # {}) =>
        resolved = Found(dataMap[Min(C21_Entries(C4_Keys[Min(C21_Synonyms)]))].value)

\* C21: in the document and in the spreadsheet resolver alike, when no
\* synonym matches exactly the synonyms are tried in list order on their
\* words of length > 2, shorter words playing no part, and the first raw key
\* in insertion order that contains every such word supplies the value.
C21_PartialMatch ==
    pc = "resolved" => C21_Rule

\* the same rule for the document resolver alone
C21_DocumentResolver ==
    (pc = "resolved" /\ resolving.resolver = "document") => C21_Rule

\* the spreadsheet resolver on a synonym holding a short word: "za$my i
\* kredity" selects the entry by its two long words, the call throws
C21_SpreadsheetShortWord ==
    /\ pc = "resolved"
    /\ resolving.resolver = "spreadsheet"
    /\ resolving.field.name = "shortTermDebt"
    /\ dataMap = <<[key |-> "za$my i kredity bankov", value |-> PoolValue(5)]>>
    /\ C21_Entries("za$my i kredity") = {1}
    /\ resolved.kind = "error"

\* the document resolver on the same map: the value is supplied
C21_DocumentShortWord ==
    /\ pc = "resolved"
    /\ resolving.resolver = "document"
    /\ resolving.field.name = "shortTermDebt"
    /\ dataMap = <<[key |-> "za$my i kredity bankov", value |-> PoolValue(5)]>>
    /\ resolved = Found(PoolValue(5))

(***************************************************************************)
(* The order of the required fields (document-parser.ts 391-478,           *)
(* excel-parser.ts 64-147)                                                 *)
(***************************************************************************)
C28_Order ==
    << "currentAssets", "cashAndEquivalents", "shortTermInvestments",
       "accountsReceivable", "inventory", "totalAssets", "currentLiabilities",
       "shortTermDebt", "totalLiabilities", "equity", "longTermDebt" >>

C28_Fields ==
    IF resolving.resolver = "document" THEN DocumentFields ELSE SpreadsheetFields

C28_Field(name) ==
    C28_Fields[CHOOSE f \in 1..Len(C28_Fields) : C28_Fields[f].name = name]

\* no synonym of the field matches a raw key, exactly or partially, by the
\* matching of the resolver at work
C28_Unresolvable(name) ==
    LET possibleKeys == C28_Field(name).possibleKeys
    IN  /\ ExactMatches(dataMap, possibleKeys) = {}
        /\ \A i \in 1..Len(possibleKeys) :
              IF resolving.resolver = "document"
              THEN PartialMatches(dataMap, possibleKeys[i]) = {}
              ELSE PartialMatchesExcel(dataMap, possibleKeys[i]) = {}

\* the positions in the fixed order of the required fields that do not resolve
C28_Missing == {n \in 1..Len(C28_Order) : C28_Unresolvable(C28_Order[n])}

C28_WitnessSpreadsheet ==
    /\ pc = "mapped"
    /\ resolving.resolver = "spreadsheet"
    /\ 1 \notin C28_Missing /\ 2 \in C28_Missing /\ 11 \in C28_Missing
    /\ resolved.kind = "error"
    /\ resolved.field = "denejnye sredstva"
    /\ resolved.prefix = "O&ibka parsinga Excel fa$la: "

(***************************************************************************)
(* Labels that occur twice (document-parser.ts 272-296, 298-324)           *)
(***************************************************************************)
\* what line i makes the strategy that filled the map record: Strategy A
\* when it records anything on the document, else Strategy B
C25_Entry(i) ==
    IF C9_MultiLineRecords THEN multiLineField(lines, i)
    ELSE singleLineField(lines, i)

\* the lines that record, each with its key and its value
C25_Recorded ==
    {<<i, C25_Entry(i)[1].key, C25_Entry(i)[1].value>> :
        i \in {n \in 1..Len(lines) : C25_Entry(n) # <<>>}}

\* the lines recorded under the key
C25_Lines(key) == {rec[1] : rec \in {r \in C25_Recorded : r[2] = key}}

\* C25: Strategy A and Strategy B write the raw map by overwrite: of the
\* lines whose labels normalize to one key the last supplies the stored
\* value, and the key stays where the first of them put it.
C25_LaterLineOverwrites ==
    (pc = "codes" /\ idx = 1) =>
        \A recorded \in {C25_Recorded} :
            LET linesOf(key) == {r[1] : r \in {x \in recorded : x[2] = key}}
                valueAt(i) == (CHOOSE r \in recorded : r[1] = i)[3]
            IN  /\ \A j \in 1..Len(dataMap) :
                      /\ linesOf(dataMap[j].key) # {}
                      /\ dataMap[j].value = valueAt(Max(linesOf(dataMap[j].key)))
                /\ \A j \in 1..(Len(dataMap) - 1) :
                      Min(linesOf(dataMap[j].key)) < Min(linesOf(dataMap[j + 1].key))
                /\ \A r \in recorded : MapHas(dataMap, r[2])

\* the key is recorded by two lines with different values
C25_Twice(key) ==
    /\ Cardinality(C25_Lines(key)) >= 2
    /\ C25_Entry(Min(C25_Lines(key)))[1].value
          # C25_Entry(Max(C25_Lines(key)))[1].value

\* Strategy A met "Denejnye sredstva" twice, with 45000 and then with
\* (1 200), after other labels: the key holds -1200 and is not the last
C25_Witness ==
    /\ pc = "codes" /\ idx = 1
    /\ C9_MultiLineRecords
    /\ C25_Twice("denejnye sredstva")
    /\ MapGet(dataMap, "denejnye sredstva") = Whole(-1200)
    /\ dataMap[Len(dataMap)].key # "denejnye sredstva"

\* Strategy B met "Zapasy" with 35000 and then with 35: the key holds 35 at
\* the place of its first insertion
C25_WitnessSingleLine ==
    /\ pc = "codes" /\ idx = 1
    /\ ~C9_MultiLineRecords
    /\ C25_Twice("zapasy")
    /\ MapGet(dataMap, "zapasy") = Whole(35)
    /\ dataMap[1].key = "zapasy"
    /\ Len(dataMap) > 1

(***************************************************************************)
(* Label, code and numeric groups on one line (document-parser.ts 265-270, *)
(* 302-323)                                                                *)
(***************************************************************************)
\* the positions where a whitespace-delimited token of the line starts
C27_Starts(s) ==
    {i \in 1..Len(s) :
        Char(s, i) \notin WhiteSpace /\ (i = 1 \/ Char(s, i - 1) \in WhiteSpace)}

\* the last position of the token that starts at i
C27_End(s, i) ==
    Max({j \in i..Len(s) : \A k \in i..j : Char(s, k) \notin WhiteSpace})

C27_Token(s, i) == SubSeq(s, i, C27_End(s, i))

\* the tokens that can be the code of the shape: a 4-digit token after a
\* label, followed by at least one more token and by numeric characters only
C27_Codes(s) ==
    {i \in C27_Starts(s) :
        /\ i > 1 /\ Char(s, 1) \notin WhiteSpace
        /\ codePattern(C27_Token(s, i))
        /\ \E n \in C27_Starts(s) : n > i
        /\ AllIn(From(s, C27_End(s, i) + 1), ValueChars)}

\* the label is the shortest that lets the line have the shape
C27_Label(s) == Trim(SubSeq(s, 1, Min(C27_Codes(s)) - 1))

\* the first whitespace-delimited token after the code
C27_FirstToken(s) ==
    C27_Token(s, Min({n \in C27_Starts(s) : n > Min(C27_Codes(s))}))

\* the single-line loop on a line of the shape: the parse of the first token
\* after the code is filed under the label, and when it does not parse, or
\* the label normalizes to nothing, the line leaves the map as it is
C27_Step ==
    (pc = "singleLine" /\ C27_Codes(lines[idx]) # {}) =>
        LET label == C27_Label(lines[idx])
            value == parseNumericValue(C27_FirstToken(lines[idx]))
        IN  /\ IF IsDefined(value) /\ normalizeKey(label) # ""
               THEN /\ dataMap' = MapSet(dataMap, normalizeKey(label), Val(value))
                    /\ foundKeys' = Append(foundKeys, label)
               ELSE /\ dataMap' = dataMap
                    /\ foundKeys' = foundKeys
            /\ lines[idx] = "Zapasy 1210 35 000"
                  => MapGet(dataMap', "zapasy") = Whole(35)

\* C27: on a line of the shape label, 4-digit code, numeric groups Strategy B
\* records the parse of the first whitespace-delimited numeric token after
\* the code ("Zapasy 1210 35 000" gives 35, not 35000), and no other shape is
\* tried for the line, even when that token does not parse.
C27_FirstTokenAfterCode == [][C27_Step]_vars

\* Strategy B has run over "Zapasy 1210 35 000" and then over
\* "Zapasy 1210 - 500", whose first token does not parse while the second
\* shape would read 1210500 from it: the map holds 35
C27_Witness ==
    /\ pc = "codes" /\ idx = 1
    /\ ~C9_MultiLineRecords
    /\ \E i \in 1..(Len(lines) - 1) :
          /\ lines[i] = "Zapasy 1210 35 000"
          /\ lines[i + 1] = "Zapasy 1210 - 500"
          /\ C27_FirstToken(lines[i]) = "35"
          /\ C27_FirstToken(lines[i + 1]) = "-"
          /\ singleLinePattern2(lines[i + 1]) # <<>>
          /\ \A j \in (i + 2)..Len(lines) : C27_Codes(lines[j]) = {}
    /\ MapGet(dataMap, "zapasy") = Whole(35)

(***************************************************************************)
(* Receivables and the code table (document-parser.ts 328-358, 419-424)    *)
(***************************************************************************)
C26_Receivable ==
    DocumentFields[CHOOSE f \in 1..Len(DocumentFields) :
                       DocumentFields[f].name = "accountsReceivable"]

\* the raw key resolves accountsReceivable, exactly or partially
C26_Resolves(key) ==
    findValue(<<[key |-> key, value |-> Whole(1)]>>, <<key>>,
              C26_Receivable.possibleKeys, FALSE).kind = "value"

\* neither Strategy A nor Strategy B records a line of the document: every
\* key of the raw map is written by Strategy C
C26_OnlyCodes ==
    \A i \in 1..Len(lines) :
        multiLineField(lines, i) = <<>> /\ singleLineField(lines, i) = <<>>

\* C26: no code of codeToFieldMap gives a raw key that resolves the required
\* accountsReceivable, exactly or partially; when every key of the raw map
\* was written by Strategy C the extraction ends with a required-field error
\* and never returns a record.
C26_CodesNeverGiveReceivables ==
    /\ pc = "done" =>
          \A r \in 1..Len(codeToFieldMap) :
              ~C26_Resolves(normalizeKey(codeToFieldMap[r][2]))
    /\ (pc \in {"fields", "done"} /\ C26_OnlyCodes) =>
          /\ \A j \in 1..Len(dataMap) :
                /\ \E r \in 1..Len(codeToFieldMap) :
                      dataMap[j].key = normalizeKey(codeToFieldMap[r][2])
                /\ ~C26_Resolves(dataMap[j].key)
          /\ pc = "done" =>
                /\ extracted.kind = "error"
                /\ \E f \in 1..Len(DocumentFields) :
                      /\ ~DocumentFields[f].optional
                      /\ extracted.field = DocumentFields[f].possibleKeys[1]

\* a sheet read by its codes alone, code 1230 among them: the three required
\* fields before accountsReceivable resolve, and the error names it
C26_Witness ==
    /\ pc = "done"
    /\ C26_OnlyCodes
    /\ \E i \in 1..Len(lines) : lines[i] = "1230"
    /\ Len(dataMap) >= 10
    /\ MapHas(dataMap, "finansovye vlojeniw")
    /\ extracted.kind = "error"
    /\ extracted.field = "debitorskaw zadoljennost'"

(***************************************************************************)
(* C23, C24: the header scan for the OKVED code and the company name       *)
(***************************************************************************)
\* what each line of the window gives for the code and for the name, by the
\* label or by the quotation marks, when none is held
C23_Window ==
    [k \in 1..Len(Slice(header.lines, HeaderWindow)) |->
        [ okved |-> okvedIn(header.lines[k]),
          companyName |-> companyNameIn(header.lines[k]) ]]

\* the lines of the window that match for the code
C23_CodeLines(window) ==
    {k \in DOMAIN window : IsDefined(window[k].okved)}

\* the lines of the window that match for the name
C23_NameLines(window) ==
    {k \in DOMAIN window : IsDefined(window[k].companyName)}

\* those of them that give a name that is not empty
C23_NamingLines(window) ==
    {k \in DOMAIN window : Truthy(window[k].companyName)}

\* the line on which the scan stops when the lines of the two sets are the
\* ones that find the code and the name: the first line by which both are
\* found, and the last line of the window when there is none
C23_StopLine(window, codeLines, nameLines) ==
    IF codeLines # {} /\ nameLines # {}
    THEN Max({Min(codeLines), Min(nameLines)})
    ELSE Len(window)

\* C23 as it is stated: a code or a name that first appears after line 30 is
\* never extracted; for the code and for the name the first matching line of
\* the first 30 gives the value whatever the later lines match; the scan
\* stops on the first line by which both have matched.
C23_FirstMatchingLineWins ==
    header.pc = "assigned" =>
        \A window \in {C23_Window} :
            /\ header.okved =
                  IF C23_CodeLines(window) = {} THEN Undefined
                  ELSE window[Min(C23_CodeLines(window))].okved
            /\ header.companyName =
                  IF C23_NameLines(window) = {} THEN Undefined
                  ELSE window[Min(C23_NameLines(window))].companyName
            /\ header.i = C23_StopLine(window, C23_CodeLines(window),
                                       C23_NameLines(window))

\* C23 amended: a code or a name that first appears after line 30 is never
\* extracted; the first line of the first 30 that matches for the code gives
\* the code, the first line of them that gives a name that is not empty
\* gives the name, and neither is replaced by a later match; a line whose
\* labeled or quoted name is empty leaves the name to the later lines; the
\* scan goes on while the code or a name that is not empty is missing, and
\* stops on the first line by which both are found.
C23_FirstNonEmptyMatchWins ==
    /\ header.i <= HeaderWindow
    /\ header.pc = "scan" =>
          ~(Truthy(header.okved) /\ Truthy(header.companyName))
    /\ header.pc = "assigned" =>
          \A window \in {C23_Window} :
              /\ header.okved =
                    IF C23_CodeLines(window) = {} THEN Undefined
                    ELSE window[Min(C23_CodeLines(window))].okved
              /\ IsDefined(header.okved) => Val(header.okved) # ""
              /\ header.companyName =
                    IF C23_NamingLines(window) # {}
                    THEN window[Min(C23_NamingLines(window))].companyName
                    ELSE IF C23_NameLines(window) # {} THEN Def("")
                    ELSE Undefined
              /\ header.i = C23_StopLine(window, C23_CodeLines(window),
                                         C23_NamingLines(window))

\* a document whose first line is a label with an empty name and whose line
\* 30 gives a name and the code: the name of line 30 is extracted
C23_Witness ==
    /\ header.pc = "assigned"
    /\ companyNameIn(header.lines[1]) = Def("")
    /\ C23_NamingLines(C23_Window) = {HeaderWindow}
    /\ header.companyName = companyNameIn(header.lines[HeaderWindow])
    /\ Truthy(header.companyName)
    /\ Truthy(header.okved)
    /\ header.i = HeaderWindow

\* a document whose code stands on line 31 only: no code is extracted
C23_WitnessWindow ==
    /\ header.pc = "assigned"
    /\ Len(header.lines) > HeaderWindow
    /\ okvedMatch(header.lines[HeaderWindow + 1]) # <<>>
    /\ header.okved = Undefined
    /\ header.i = HeaderWindow

\* a document whose first two lines give the code and the name: the scan
\* stops on the second line, and the name that line 30 gives is left out
C23_WitnessStop ==
    /\ header.pc = "assigned"
    /\ header.i = 2
    /\ Truthy(header.okved)
    /\ Truthy(header.companyName)
    /\ Len(header.lines) > HeaderWindow
    /\ Truthy(companyNameIn(header.lines[HeaderWindow]))

\* the quoted text of the line that the scan is on, <<>> when the line has
\* none between an opening and a closing mark
C24_Quoted == quotedMatch(header.lines[header.i])

\* the text after a label word on the line that the scan is on
C24_Labeled == companyMatch(header.lines[header.i])

\* one turn of the loop on a line, no name being held so far
C24_Step ==
    (header.pc = "scan" /\ ~Truthy(header.companyName)) =>
        IF C24_Labeled # <<>>
        THEN header'.companyName =
                 Def(RemoveAll(Trim(C24_Labeled[1]), QuoteChars))
        ELSE IF C24_Quoted # <<>> /\ Len(C24_Quoted[1]) \in 4..99
        THEN header'.companyName = Def(Trim(C24_Quoted[1]))
        ELSE header'.companyName = header.companyName

C24_WitnessShort ==
    /\ header.pc = "assigned"
    /\ header.lines = <<"ZAO <Luq>", "ZAO <Luqi> za 2023 god">>
    /\ header.companyName = Def("Luqi")

\* a line with a label and a quoted text of sane length: the name is the
\* labeled text, not the quoted one
C24_WitnessLabel ==
    /\ header.pc = "assigned"
    /\ companyMatch(header.lines[1]) # <<>>
    /\ quotedMatch(header.lines[1]) # <<>>
    /\ Len(quotedMatch(header.lines[1])[1]) \in 4..99
    /\ Truthy(header.companyName)
    /\ header.companyName # Def(quotedMatch(header.lines[1])[1])
=============================================================================
